---- MODULE Spec2Model ----
(***************************************************************************)
(* Matchmaking, stake escrow and match settlement of the dama game server. *)
(*                                                                         *)
(* The model follows the Redis revision (src/unnamed/part_000): open       *)
(* challenges and active rooms are Redis hashes shared by every server     *)
(* process, balances, ratings, the admin wallet and the transaction log    *)
(* are PostgreSQL tables.  Every socket event starts a handler; a handler  *)
(* is a task that runs from one await to the next.  One step of a task is  *)
(* what the event loop runs when the awaited reply arrives, up to and      *)
(* including the next request, which the store executes atomically.        *)
(* Steps of different tasks interleave freely, whichever process they run  *)
(* on.                                                                     *)
(***************************************************************************)
EXTENDS Integers, Sequences, FiniteSets, Bags, TLC

VARIABLES
    users,           \* PostgreSQL table users: real_balance, demo_balance, elo
    admin_wallet,    \* PostgreSQL table admin_wallet, row id = 1: balance
    transactions,    \* PostgreSQL table transactions, a bag of rows
    openChallenges,  \* Redis hash 'openChallenges': roomId -> challenge
    activeRooms,     \* Redis hash 'activeRooms': roomId -> room
    sockets,         \* per connection: connected, socket.roomId, socket.userId, joined rooms
    tasks,           \* bag of handlers in flight, each waiting on an await
    now,             \* Date.now(), in milliseconds
    events,          \* number of socket events received since the start, by kind
    lobby,           \* payload of the most recent lobby_update
    hist             \* log (a bag) of ledger operations applied and events emitted

vars == <<users, admin_wallet, transactions, openChallenges, activeRooms,
          sockets, tasks, now, events, lobby, hist>>

ledger == <<users, admin_wallet, transactions>>
registry == <<openChallenges, activeRooms>>

(***************************************************************************)
(* Bounds of the model.                                                    *)
(***************************************************************************)
MaxEvents == 3        \* socket events received in one run
MaxCreates == 2       \* create_challenge events among them
MaxJoins == 2         \* join_challenge events among them
MaxCancels == 1       \* cancel_challenge events among them
MaxDisconnects == 1   \* disconnects among them
MaxSignals == 2       \* game_over, timeout_loss and accept_draw events among them
MaxMatchEvents == 2   \* events the two players of a formed match send
MaxFailures == 1      \* statements PostgreSQL rejects in one run
MaxNow == 2           \* milliseconds the clock can show
NumPrivateIds == 1    \* distinct tokens Math.random() can yield
InitBalance == 10     \* balance of every account, both modes, at the start
StakeLow == 5         \* the smaller stake a client asks for
StakeHigh == 10       \* the larger stake a client asks for

Sockets == {"s1", "s2", "s3"}
Modes == {"real", "demo"}
Stakes == {StakeLow, StakeHigh}

\* data.userId: every session sends the id of its own account.
userId(s) == CASE s = "s1" -> "u1" [] s = "s2" -> "u2" [] OTHER -> "u3"
Users == {userId(s) : s \in Sockets}

\* data.elo: the rating the session holds (as returned by /api/login).
ClientElo(s) == CASE s = "s1" -> 1200 [] s = "s2" -> 1200 [] OTHER -> 1216

Kinds == {"create", "join", "cancel", "disconnect", "signal", "failure"}
Cap(kind) == CASE kind = "create" -> MaxCreates [] kind = "join" -> MaxJoins
               [] kind = "cancel" -> MaxCancels [] kind = "disconnect" -> MaxDisconnects
               [] kind = "failure" -> MaxFailures
               [] OTHER -> MaxSignals
Total(ev) == ev["create"] + ev["join"] + ev["cancel"] + ev["disconnect"] + ev["signal"]

NoRoomId == <<"undefined", 0>>
PubIds == {<<"pub_", n>> : n \in 1..MaxNow}
PrivateIds == {<<"priv", k>> : k \in 1..NumPrivateIds}
RoomIds == PubIds \cup PrivateIds

balCol(mode) == IF mode = "real" THEN "real_balance" ELSE "demo_balance"

NoChallenge == [roomId |-> NoRoomId, hostId |-> "", userId |-> "", stake |-> 0,
                mode |-> "", isPrivate |-> FALSE, elo |-> 0]
NoPlayer == [id |-> "", userId |-> "", elo |-> 0]
NoRoom == [p1 |-> NoPlayer, p2 |-> NoPlayer, stake |-> 0, mode |-> "",
           processed |-> FALSE]
NoHash == [r \in {} |-> NoChallenge]

(***************************************************************************)
(* Redis hash commands.                                                    *)
(***************************************************************************)
hExists(hash, key) == key \in DOMAIN hash
hGet(hash, key, absent) == IF key \in DOMAIN hash THEN hash[key] ELSE absent
hSet(hash, key, value) == [k \in DOMAIN hash \cup {key} |->
                              IF k = key THEN value ELSE hash[k]]
hDel(hash, key) == [k \in DOMAIN hash \ {key} |-> hash[k]]

(***************************************************************************)
(* PostgreSQL statements on the users table.                               *)
(***************************************************************************)
\* UPDATE users SET col = col - amount WHERE id = uid
Debit(tbl, uid, col, amount) == [tbl EXCEPT ![uid][col] = @ - amount]
\* UPDATE users SET col = col + amount WHERE id = uid
Credit(tbl, uid, col, amount) == [tbl EXCEPT ![uid][col] = @ + amount]
\* UPDATE users SET col = col + amount WHERE id IN (a, b)
CreditBoth(tbl, a, b, col, amount) ==
    [u \in DOMAIN tbl |-> IF u \in {a, b} THEN [tbl[u] EXCEPT ![col] = @ + amount]
                                           ELSE tbl[u]]
\* INSERT INTO transactions (user_id, type, amount, status)
TxRow(uid, type, amount, status) ==
    [user_id |-> uid, type |-> type, amount |-> amount, status |-> status]

(***************************************************************************)
(* The log: what was applied to the ledger and what was emitted, with the  *)
(* room it was for.                                                        *)
(***************************************************************************)
Ev(kind, rid, who, amount, note) == <<kind, rid, who, amount, note>>
Log(es) == hist (+) SetToBag(es)
\* How many logged entries of this kind, for this room, carry one of these notes.
Num(kind, rid, notes) ==
    LET S == {e \in BagToSet(hist) : e[1] = kind /\ e[2] = rid /\ e[5] \in notes}
        RECURSIVE Sum(_)
        Sum(T) == IF T = {} THEN 0
                  ELSE LET e == CHOOSE x \in T : TRUE
                       IN CopiesIn(e, hist) + Sum(T \ {e})
    IN Sum(S)
Reasons == {"regular", "timeout", "draw", "abandon"}

(***************************************************************************)
(* Tasks.                                                                  *)
(***************************************************************************)
NoTask == [h |-> "", pc |-> "", socket |-> "", roomId |-> NoRoomId, stake |-> 0,
           mode |-> "", isPrivate |-> FALSE, bal |-> 0, c |-> NoChallenge,
           found |-> FALSE, room |-> NoRoom, rawChallenges |-> NoHash,
           winnerSocketId |-> "", reason |-> "", challengeIndex |-> 0]

Spawn(t) == tasks (+) SetToBag({t})
Replace(t, u) == (tasks (-) SetToBag({t})) (+) SetToBag({u})
Finish(t) == tasks (-) SetToBag({t})
Running == BagToSet(tasks)

Init ==
    /\ users = [u \in Users |-> [real_balance |-> InitBalance,
                                 demo_balance |-> InitBalance, elo |-> 1200]]
    /\ admin_wallet = 0
    /\ transactions = EmptyBag
    /\ openChallenges = NoHash
    /\ activeRooms = [r \in {} |-> NoRoom]
    /\ sockets = [s \in Sockets |-> [connected |-> TRUE, roomId |-> NoRoomId,
                                     userId |-> "", joined |-> {}]]
    /\ tasks = EmptyBag
    /\ now = 1
    /\ events = [k \in Kinds |-> 0]
    /\ lobby = {}
    /\ hist = EmptyBag

\* The clock advances.
Tick ==
    /\ now < MaxNow
    /\ now' = now + 1
    /\ UNCHANGED <<ledger, registry, sockets, tasks, events, lobby, hist>>

\* A connected session sends an event of this kind.
Receive(s, kind) ==
    /\ sockets[s].connected
    /\ Total(events) < MaxEvents
    /\ events[kind] < Cap(kind)
    /\ events' = [events EXCEPT ![kind] = @ + 1]

\* A list sent without the filter: the variant C31 must tell from PublicOf.
PublicOfAll(rawChallenges) == {rawChallenges[r] : r \in DOMAIN rawChallenges}
\* challenges.filter(c => !c.isPrivate)
PublicOf(rawChallenges) ==
    {rawChallenges[r] : r \in {k \in DOMAIN rawChallenges : ~rawChallenges[k].isPrivate}}

(***************************************************************************)
(* create_challenge                                                        *)
(***************************************************************************)
\* The event arrives; SELECT balCol as bal FROM users WHERE id = userId.
CreateChallenge(s, stake, mode, isPrivate) ==
    /\ Receive(s, "create")
    /\ tasks' = Spawn([NoTask EXCEPT !.h = "create_challenge", !.pc = "selected",
                          !.socket = s, !.stake = stake, !.mode = mode,
                          !.isPrivate = isPrivate,
                          !.bal = users[userId(s)][balCol(mode)]])
    /\ UNCHANGED <<ledger, registry, sockets, now, lobby, hist>>

\* A create_challenge that reports the error and debits the stake all the same:
\* the variant C6 must tell from CreateRefused.
CreateRefusedDebits(t) ==
    /\ t.h = "create_challenge" /\ t.pc = "selected"
    /\ t.bal < t.stake
    /\ users' = Debit(users, userId(t.socket), balCol(t.mode), t.stake)
    /\ tasks' = Finish(t)
    /\ hist' = Log({Ev("error", NoRoomId, t.socket, 0, "Salio Halitoshi!")})
    /\ UNCHANGED <<admin_wallet, transactions, registry, sockets, now, events, lobby>>

\* if (bal < stake) return socket.emit('error', 'Salio Halitoshi!')
CreateRefused(t) ==
    /\ t.h = "create_challenge" /\ t.pc = "selected"
    /\ t.bal < t.stake
    /\ tasks' = Finish(t)
    /\ hist' = Log({Ev("error", NoRoomId, t.socket, 0, "Salio Halitoshi!")})
    /\ UNCHANGED <<ledger, registry, sockets, now, events, lobby>>

\* The roomId a create generates: a random token, or 'pub_' + Date.now().
NewRoomIds(isPrivate) == IF isPrivate THEN PrivateIds ELSE {<<"pub_", now>>}

\* A debit that writes back the balance the SELECT had read, less the stake: the
\* variant C28 must tell from CreateDebit.
CreateDebitFromRead(t) ==
    /\ t.h = "create_challenge" /\ t.pc = "selected"
    /\ ~(t.bal < t.stake)
    /\ \E rid \in NewRoomIds(t.isPrivate) :
         /\ users' = [users EXCEPT ![userId(t.socket)][balCol(t.mode)] = t.bal - t.stake]
         /\ tasks' = Replace(t, [t EXCEPT !.pc = "debited", !.roomId = rid])
         /\ hist' = Log({Ev("debit", rid, userId(t.socket), t.stake, "create")})
    /\ UNCHANGED <<admin_wallet, transactions, registry, sockets, now, events, lobby>>

\* roomId = ...; UPDATE users SET balCol = balCol - stake WHERE id = userId
CreateDebit(t) ==
    /\ t.h = "create_challenge" /\ t.pc = "selected"
    /\ ~(t.bal < t.stake)
    /\ \E rid \in NewRoomIds(t.isPrivate) :
         /\ users' = Debit(users, userId(t.socket), balCol(t.mode), t.stake)
         /\ tasks' = Replace(t, [t EXCEPT !.pc = "debited", !.roomId = rid])
         /\ hist' = Log({Ev("debit", rid, userId(t.socket), t.stake, "create")})
    /\ UNCHANGED <<admin_wallet, transactions, registry, sockets, now, events, lobby>>

\* challenge = { roomId, hostId: socket.id, userId, stake, mode, isPrivate, elo }
NewChallenge(t) ==
    [roomId |-> t.roomId, hostId |-> t.socket, userId |-> userId(t.socket),
     stake |-> t.stake, mode |-> t.mode, isPrivate |-> t.isPrivate,
     elo |-> ClientElo(t.socket)]

\* socket.join(roomId); socket.roomId = roomId; socket.userId = userId
Associate(s, rid) ==
    [sockets EXCEPT ![s].roomId = rid, ![s].userId = userId(s),
                    ![s].joined = @ \cup {rid}]

\* socket.roomId = roomId; hSet('openChallenges', roomId, challenge)
CreateStore(t) ==
    /\ t.h = "create_challenge" /\ t.pc = "debited"
    /\ sockets' = Associate(t.socket, t.roomId)
    /\ openChallenges' = hSet(openChallenges, t.roomId, NewChallenge(t))
    /\ tasks' = Replace(t, [t EXCEPT !.pc = "stored"])
    /\ hist' = Log({Ev("stored", t.roomId, t.socket, t.stake, t.mode)})
    /\ UNCHANGED <<ledger, activeRooms, now, events, lobby>>

\* socket.roomId = roomId; hSet('openChallenges', ...) is rejected: the registry is
\* unreachable.  Control passes to catch (err) { console.error(...) }.
CreateStoreFails(t) ==
    /\ t.h = "create_challenge" /\ t.pc = "debited"
    /\ events["failure"] < Cap("failure")
    /\ events' = [events EXCEPT !["failure"] = @ + 1]
    /\ sockets' = Associate(t.socket, t.roomId)
    /\ tasks' = Finish(t)
    /\ hist' = Log({Ev("unstored", t.roomId, userId(t.socket), t.stake, "create")})
    /\ UNCHANGED <<ledger, registry, now, lobby>>

\* socket.emit('game_created'); broadcastLobby(): hGetAll('openChallenges')
CreateReadLobby(t) ==
    /\ t.h = "create_challenge" /\ t.pc = "stored"
    /\ tasks' = Replace(t, [t EXCEPT !.pc = "lobbyRead", !.rawChallenges = openChallenges])
    /\ hist' = Log({Ev("game_created", t.roomId, t.socket, 0, "")})
    /\ UNCHANGED <<ledger, registry, sockets, now, events, lobby>>

\* io.emit('lobby_update', challenges); if (mode === 'real') INSERT INTO transactions
CreateEmitLobby(t) ==
    /\ t.h = "create_challenge" /\ t.pc = "lobbyRead"
    /\ lobby' = PublicOf(t.rawChallenges)
    /\ transactions' = IF t.mode = "real"
                       THEN transactions (+) SetToBag({TxRow(userId(t.socket),
                                "ENTRY_FEE", t.stake, "PENDING")})
                       ELSE transactions
    /\ tasks' = Finish(t)
    /\ UNCHANGED <<users, admin_wallet, registry, sockets, now, events, hist>>

(***************************************************************************)
(* join_challenge                                                          *)
(***************************************************************************)
\* The event arrives; hGet('openChallenges', roomId).
JoinChallenge(s, rid) ==
    /\ Receive(s, "join")
    /\ tasks' = Spawn([NoTask EXCEPT !.h = "join_challenge", !.pc = "got",
                          !.socket = s, !.roomId = rid,
                          !.found = hExists(openChallenges, rid),
                          !.c = hGet(openChallenges, rid, NoChallenge)])
    /\ UNCHANGED <<ledger, registry, sockets, now, lobby, hist>>

\* A join that finds no challenge and returns without telling the session: the
\* variant C15 must tell from JoinNotFound.
JoinNotFoundSilent(t) ==
    /\ t.h = "join_challenge" /\ t.pc = "got"
    /\ ~t.found
    /\ tasks' = Finish(t)
    /\ UNCHANGED <<ledger, registry, sockets, now, events, lobby, hist>>

\* if (!rawChallenge) return socket.emit('error', 'Mechi haipatikani.')
JoinNotFound(t) ==
    /\ t.h = "join_challenge" /\ t.pc = "got"
    /\ ~t.found
    /\ tasks' = Finish(t)
    /\ hist' = Log({Ev("error", t.roomId, t.socket, 0, "Mechi haipatikani.")})
    /\ UNCHANGED <<ledger, registry, sockets, now, events, lobby>>

\* challenge.userId == userId
IsSelfJoin(t) == t.c.userId = userId(t.socket)

\* A self-join that reports the error and takes the challenge off the registry:
\* the variant C7 must tell from JoinSelf.
JoinSelfRemoves(t) ==
    /\ t.h = "join_challenge" /\ t.pc = "got"
    /\ t.found /\ IsSelfJoin(t)
    /\ openChallenges' = hDel(openChallenges, t.roomId)
    /\ tasks' = Finish(t)
    /\ hist' = Log({Ev("error", t.roomId, t.socket, 0, "Huwezi kucheza dhidi yako!")})
    /\ UNCHANGED <<ledger, activeRooms, sockets, now, events, lobby>>

\* if (challenge.userId == userId) return socket.emit('error', 'Huwezi kucheza dhidi yako!')
JoinSelf(t) ==
    /\ t.h = "join_challenge" /\ t.pc = "got"
    /\ t.found /\ IsSelfJoin(t)
    /\ tasks' = Finish(t)
    /\ hist' = Log({Ev("error", t.roomId, t.socket, 0, "Huwezi kucheza dhidi yako!")})
    /\ UNCHANGED <<ledger, registry, sockets, now, events, lobby>>

\* SELECT balCol as bal FROM users WHERE id = userId
JoinSelect(t) ==
    /\ t.h = "join_challenge" /\ t.pc = "got"
    /\ t.found /\ ~IsSelfJoin(t)
    /\ tasks' = Replace(t, [t EXCEPT !.pc = "selected",
                               !.bal = users[userId(t.socket)][balCol(t.c.mode)]])
    /\ UNCHANGED <<ledger, registry, sockets, now, events, lobby, hist>>

\* A join that reports insufficient funds after taking the challenge off the
\* registry: the variant C16 must tell from JoinRefused.
JoinRefusedRemoves(t) ==
    /\ t.h = "join_challenge" /\ t.pc = "selected"
    /\ t.bal < t.c.stake
    /\ openChallenges' = hDel(openChallenges, t.roomId)
    /\ tasks' = Finish(t)
    /\ hist' = Log({Ev("error", t.roomId, t.socket, 0, "Salio Halitoshi!")})
    /\ UNCHANGED <<ledger, activeRooms, sockets, now, events, lobby>>

\* if (bal < challenge.stake) return socket.emit('error', 'Salio Halitoshi!')
JoinRefused(t) ==
    /\ t.h = "join_challenge" /\ t.pc = "selected"
    /\ t.bal < t.c.stake
    /\ tasks' = Finish(t)
    /\ hist' = Log({Ev("error", t.roomId, t.socket, 0, "Salio Halitoshi!")})
    /\ UNCHANGED <<ledger, registry, sockets, now, events, lobby>>

\* hDel('openChallenges', roomId)
JoinRemove(t) ==
    /\ t.h = "join_challenge" /\ t.pc = "selected"
    /\ ~(t.bal < t.c.stake)
    /\ openChallenges' = hDel(openChallenges, t.roomId)
    /\ tasks' = Replace(t, [t EXCEPT !.pc = "removed"])
    /\ UNCHANGED <<ledger, activeRooms, sockets, now, events, lobby, hist>>

\* broadcastLobby(): hGetAll('openChallenges')
JoinReadLobby(t) ==
    /\ t.h = "join_challenge" /\ t.pc = "removed"
    /\ tasks' = Replace(t, [t EXCEPT !.pc = "lobbyRead", !.rawChallenges = openChallenges])
    /\ UNCHANGED <<ledger, registry, sockets, now, events, lobby, hist>>

\* io.emit('lobby_update'); UPDATE users SET balCol = balCol - stake WHERE id = userId
JoinDebit(t) ==
    /\ t.h = "join_challenge" /\ t.pc = "lobbyRead"
    /\ lobby' = PublicOf(t.rawChallenges)
    /\ users' = Debit(users, userId(t.socket), balCol(t.c.mode), t.c.stake)
    /\ tasks' = Replace(t, [t EXCEPT !.pc = "debited"])
    /\ hist' = Log({Ev("debit", t.roomId, userId(t.socket), t.c.stake, "join")})
    /\ UNCHANGED <<admin_wallet, transactions, registry, sockets, now, events>>

\* activeRoomData = { p1: host, p2: joiner, stake, mode, processed: false }
NewRoom(t) ==
    [p1 |-> [id |-> t.c.hostId, userId |-> t.c.userId, elo |-> t.c.elo],
     p2 |-> [id |-> t.socket, userId |-> userId(t.socket), elo |-> ClientElo(t.socket)],
     stake |-> t.c.stake, mode |-> t.c.mode, processed |-> FALSE]

\* socket.roomId = roomId; hSet('activeRooms', roomId, activeRoomData)
JoinStore(t) ==
    /\ t.h = "join_challenge" /\ t.pc = "debited"
    /\ sockets' = Associate(t.socket, t.roomId)
    /\ activeRooms' = hSet(activeRooms, t.roomId, NewRoom(t))
    /\ tasks' = Replace(t, [t EXCEPT !.pc = "stored"])
    /\ hist' = Log({Ev("room", t.roomId, t.socket, t.c.stake, t.c.mode)})
    /\ UNCHANGED <<ledger, openChallenges, now, events, lobby>>

\* socket.roomId = roomId; hSet('activeRooms', ...) is rejected: the registry is
\* unreachable.  Control passes to catch(err) { console.error(...) }.
JoinStoreFails(t) ==
    /\ t.h = "join_challenge" /\ t.pc = "debited"
    /\ events["failure"] < Cap("failure")
    /\ events' = [events EXCEPT !["failure"] = @ + 1]
    /\ sockets' = Associate(t.socket, t.roomId)
    /\ tasks' = Finish(t)
    /\ hist' = Log({Ev("unstored", t.roomId, userId(t.socket), t.c.stake, "join")})
    /\ UNCHANGED <<ledger, registry, now, lobby>>

\* if (mode === 'real') INSERT INTO transactions
JoinRecord(t) ==
    /\ t.h = "join_challenge" /\ t.pc = "stored"
    /\ t.c.mode = "real"
    /\ transactions' = transactions (+) SetToBag({TxRow(userId(t.socket),
                            "ENTRY_FEE", t.c.stake, "PENDING")})
    /\ tasks' = Replace(t, [t EXCEPT !.pc = "recorded"])
    /\ UNCHANGED <<users, admin_wallet, registry, sockets, now, events, lobby, hist>>

\* io.to(roomId).emit('game_start', ...)
JoinStart(t) ==
    /\ t.h = "join_challenge"
    /\ \/ t.pc = "recorded"
       \/ t.pc = "stored" /\ t.c.mode # "real"
    /\ tasks' = Finish(t)
    /\ hist' = Log({Ev("game_start", t.roomId, t.socket, t.c.stake, t.c.hostId)})
    /\ UNCHANGED <<ledger, registry, sockets, now, events, lobby>>

(***************************************************************************)
(* cancel_challenge                                                        *)
(***************************************************************************)
\* The entries of a hGetAll reply with c.hostId === socket.id; the loop takes
\* the first of them in the order of the reply, which Redis does not fix.
Hosted(rawChallenges, s) == {r \in DOMAIN rawChallenges : rawChallenges[r].hostId = s}

\* The event arrives; hGetAll('openChallenges').
CancelChallenge(s) ==
    /\ Receive(s, "cancel")
    /\ tasks' = Spawn([NoTask EXCEPT !.h = "cancel_challenge", !.pc = "listed",
                          !.socket = s, !.rawChallenges = openChallenges])
    /\ UNCHANGED <<ledger, registry, sockets, now, lobby, hist>>

\* No entry has c.hostId === socket.id: the loop ends.
CancelNone(t) ==
    /\ t.h = "cancel_challenge" /\ t.pc = "listed"
    /\ Hosted(t.rawChallenges, t.socket) = {}
    /\ tasks' = Finish(t)
    /\ UNCHANGED <<ledger, registry, sockets, now, events, lobby, hist>>

\* hDel('openChallenges', roomId)
CancelRemove(t) ==
    /\ t.h = "cancel_challenge" /\ t.pc = "listed"
    /\ \E rid \in Hosted(t.rawChallenges, t.socket) :
         /\ openChallenges' = hDel(openChallenges, rid)
         /\ tasks' = Replace(t, [t EXCEPT !.pc = "removed", !.roomId = rid,
                                    !.c = t.rawChallenges[rid]])
    /\ UNCHANGED <<ledger, activeRooms, sockets, now, events, lobby, hist>>

\* broadcastLobby(): hGetAll('openChallenges')
CancelReadLobby(t) ==
    /\ t.h = "cancel_challenge" /\ t.pc = "removed"
    /\ tasks' = Replace(t, [t EXCEPT !.pc = "lobbyRead", !.rawChallenges = openChallenges])
    /\ UNCHANGED <<ledger, registry, sockets, now, events, lobby, hist>>

\* io.emit('lobby_update'); UPDATE users SET balCol = balCol + c.stake WHERE id = c.userId
CancelCredit(t) ==
    /\ t.h = "cancel_challenge" /\ t.pc = "lobbyRead"
    /\ lobby' = PublicOf(t.rawChallenges)
    /\ users' = Credit(users, t.c.userId, balCol(t.c.mode), t.c.stake)
    /\ tasks' = Replace(t, [t EXCEPT !.pc = "credited"])
    /\ hist' = Log({Ev("credit", t.roomId, t.c.userId, t.c.stake, "cancel")})
    /\ UNCHANGED <<admin_wallet, transactions, registry, sockets, now, events>>

\* socket.emit('challenge_cancelled')
CancelDone(t) ==
    /\ t.h = "cancel_challenge" /\ t.pc = "credited"
    /\ tasks' = Finish(t)
    /\ hist' = Log({Ev("challenge_cancelled", t.roomId, t.socket, 0, "")})
    /\ UNCHANGED <<ledger, registry, sockets, now, events, lobby>>

(***************************************************************************)
(* handleGameOver                                                          *)
(***************************************************************************)
\* The call runs to its first await: hGet('activeRooms', roomId).
HandleGameOverCall(s, rid, winnerSocketId, reason) ==
    [NoTask EXCEPT !.h = "handleGameOver", !.pc = "got", !.socket = s, !.roomId = rid,
                   !.winnerSocketId = winnerSocketId, !.reason = reason,
                   !.found = hExists(activeRooms, rid),
                   !.room = hGet(activeRooms, rid, NoRoom)]

\* if (!rawRoom) return
SettleAbsent(t) ==
    /\ t.h = "handleGameOver" /\ t.pc = "got"
    /\ ~t.found
    /\ tasks' = Finish(t)
    /\ UNCHANGED <<ledger, registry, sockets, now, events, lobby, hist>>

\* if (room.processed) return
SettleProcessed(t) ==
    /\ t.h = "handleGameOver" /\ t.pc = "got"
    /\ t.found /\ t.room.processed
    /\ tasks' = Finish(t)
    /\ UNCHANGED <<ledger, registry, sockets, now, events, lobby, hist>>

\* room.processed = true; hSet('activeRooms', roomId, room)
SettleMark(t) ==
    /\ t.h = "handleGameOver" /\ t.pc = "got"
    /\ t.found /\ ~t.room.processed
    /\ activeRooms' = hSet(activeRooms, t.roomId, [t.room EXCEPT !.processed = TRUE])
    /\ tasks' = Replace(t, [t EXCEPT !.pc = "marked", !.room.processed = TRUE])
    /\ hist' = Log({Ev("marked", t.roomId, t.socket, 0, t.reason)})
    /\ UNCHANGED <<ledger, openChallenges, sockets, now, events, lobby>>

totalPot(room) == room.stake * 2
\* A fee rounded up instead of down: the variant C10 must tell from platformFee.
platformFeeRoundedUp(room) == (totalPot(room) + 9) \div 10
\* Math.floor(totalPot * 0.10)
platformFee(room) == totalPot(room) \div 10
\* totalPot - platformFee
winnerTake(room) == totalPot(room) - platformFee(room)
\* Math.floor((totalPot - platformFee) / 2)
refund(room) == (totalPot(room) - platformFee(room)) \div 2

\* winnerSocketId === room.p1.id ? room.p1 : room.p2
winner(t) == IF t.winnerSocketId = t.room.p1.id THEN t.room.p1 ELSE t.room.p2
\* winnerSocketId === room.p1.id ? room.p2 : room.p1
loser(t) == IF t.winnerSocketId = t.room.p1.id THEN t.room.p2 ELSE t.room.p1

\* 10^(d/400), in millionths, for the rating differences d the sessions can have
Pow10(d) == CASE d = 0 -> 1000000 [] d = 16 -> 1096478 [] d = -16 -> 912011
\* The same ratings computed with k = 16: the variant C20 must tell from updateElo.
updateEloHalfK(winnerElo, loserElo) ==
    LET k == 16
        pw == Pow10(loserElo - winnerElo)
        pl == Pow10(winnerElo - loserElo)
    IN [newWinnerElo |-> winnerElo + (2 * k * pw + (1000000 + pw)) \div (2 * (1000000 + pw)),
        newLoserElo |-> loserElo + ((1000000 + pl) - 2 * k * 1000000) \div (2 * (1000000 + pl))]
\* Math.round(winnerElo + k * (1 - expectedWin)), Math.round(loserElo + k * (0 - expectedLoss))
updateElo(winnerElo, loserElo) ==
    LET k == 32
        pw == Pow10(loserElo - winnerElo)
        pl == Pow10(winnerElo - loserElo)
    IN [newWinnerElo |-> winnerElo + (2 * k * pw + (1000000 + pw)) \div (2 * (1000000 + pw)),
        newLoserElo |-> loserElo + ((1000000 + pl) - 2 * k * 1000000) \div (2 * (1000000 + pl))]

\* A draw that refunds the first player only: the variant C29 must tell from
\* SettleRefund.
SettleRefundFirstOnly(t) ==
    /\ t.h = "handleGameOver" /\ t.pc = "marked"
    /\ t.reason = "draw"
    /\ users' = Credit(users, t.room.p1.userId, balCol(t.room.mode), refund(t.room))
    /\ tasks' = Replace(t, [t EXCEPT !.pc = "paid"])
    /\ hist' = Log({Ev("refund", t.roomId, "both", refund(t.room), t.reason)})
    /\ UNCHANGED <<admin_wallet, transactions, registry, sockets, now, events, lobby>>

\* draw: UPDATE users SET balCol = balCol + refund WHERE id IN (p1, p2)
SettleRefund(t) ==
    /\ t.h = "handleGameOver" /\ t.pc = "marked"
    /\ t.reason = "draw"
    /\ users' = CreditBoth(users, t.room.p1.userId, t.room.p2.userId,
                           balCol(t.room.mode), refund(t.room))
    /\ tasks' = Replace(t, [t EXCEPT !.pc = "paid"])
    /\ hist' = Log({Ev("refund", t.roomId, "both", refund(t.room), t.reason)}
                   \cup {Ev("refunded", t.roomId, uid, refund(t.room), t.reason) :
                            uid \in {t.room.p1.userId, t.room.p2.userId}})
    /\ UNCHANGED <<admin_wallet, transactions, registry, sockets, now, events, lobby>>

\* UPDATE users SET balCol = balCol + winnerTake, elo = newWinnerElo WHERE id = winner
SettlePayWinner(t) ==
    /\ t.h = "handleGameOver" /\ t.pc = "marked"
    /\ t.reason # "draw"
    /\ LET w == winner(t)
           newElos == updateElo(w.elo, loser(t).elo)
       IN /\ users' = [Credit(users, w.userId, balCol(t.room.mode), winnerTake(t.room))
                          EXCEPT ![w.userId].elo = newElos.newWinnerElo]
          /\ hist' = Log({Ev("payout", t.roomId, w.userId, winnerTake(t.room), t.reason)})
    /\ tasks' = Replace(t, [t EXCEPT !.pc = "winnerPaid"])
    /\ UNCHANGED <<admin_wallet, transactions, registry, sockets, now, events, lobby>>

\* A loser whose rating is written in real mode only: the variant C30 must tell
\* from SettleRateLoser.
SettleRateLoserRealOnly(t) ==
    /\ t.h = "handleGameOver" /\ t.pc = "winnerPaid"
    /\ LET l == loser(t)
           newElos == updateElo(winner(t).elo, l.elo)
       IN /\ users' = IF t.room.mode = "real"
                       THEN [users EXCEPT ![l.userId].elo = newElos.newLoserElo]
                       ELSE users
          /\ hist' = Log({Ev("rated", t.roomId, l.userId, newElos.newLoserElo, t.reason)})
    /\ tasks' = Replace(t, [t EXCEPT !.pc = "paid"])
    /\ UNCHANGED <<admin_wallet, transactions, registry, sockets, now, events, lobby>>

\* UPDATE users SET elo = newLoserElo WHERE id = loser
SettleRateLoser(t) ==
    /\ t.h = "handleGameOver" /\ t.pc = "winnerPaid"
    /\ LET l == loser(t)
           newElos == updateElo(winner(t).elo, l.elo)
       IN /\ users' = [users EXCEPT ![l.userId].elo = newElos.newLoserElo]
          /\ hist' = Log({Ev("rated", t.roomId, l.userId, newElos.newLoserElo, t.reason)})
    /\ tasks' = Replace(t, [t EXCEPT !.pc = "paid"])
    /\ UNCHANGED <<admin_wallet, transactions, registry, sockets, now, events, lobby>>

\* A fee credited to the platform wallet whatever the mode of the room: the
\* variant C12 must tell from SettleFee.
SettleFeeAnyMode(t) ==
    /\ t.h = "handleGameOver" /\ t.pc = "paid"
    /\ admin_wallet' = admin_wallet + platformFee(t.room)
    /\ tasks' = Replace(t, [t EXCEPT !.pc = "feeTaken"])
    /\ hist' = Log({Ev("fee", t.roomId, "admin", platformFee(t.room), t.reason)})
    /\ UNCHANGED <<users, transactions, registry, sockets, now, events, lobby>>

\* if (room.mode === 'real') UPDATE admin_wallet SET balance = balance + platformFee
SettleFee(t) ==
    /\ t.h = "handleGameOver" /\ t.pc = "paid"
    /\ t.room.mode = "real"
    /\ admin_wallet' = admin_wallet + platformFee(t.room)
    /\ tasks' = Replace(t, [t EXCEPT !.pc = "feeTaken"])
    /\ hist' = Log({Ev("fee", t.roomId, "admin", platformFee(t.room), t.reason)})
    /\ UNCHANGED <<users, transactions, registry, sockets, now, events, lobby>>

\* INSERT INTO transactions (winner, 'PRIZE_PAYOUT', winnerTake, 'SUCCESS')
SettleRecord(t) ==
    /\ t.h = "handleGameOver" /\ t.pc = "feeTaken"
    /\ t.reason # "draw"
    /\ transactions' = transactions (+) SetToBag({TxRow(winner(t).userId,
                            "PRIZE_PAYOUT", winnerTake(t.room), "SUCCESS")})
    /\ tasks' = Replace(t, [t EXCEPT !.pc = "recorded"])
    /\ UNCHANGED <<users, admin_wallet, registry, sockets, now, events, lobby, hist>>

\* The match_result event a settlement emits to the room channel.
MatchResult(t) ==
    IF t.reason = "draw"
    THEN Ev("match_result", t.roomId, "draw", refund(t.room), t.reason)
    ELSE Ev("match_result", t.roomId, winner(t).userId, winnerTake(t.room), t.reason)

\* A settlement that ends without deleting the room: the variant C26 must tell
\* from SettleFinish.
SettleFinishKeepsRoom(t) ==
    /\ t.h = "handleGameOver"
    /\ \/ t.pc = "recorded"
       \/ t.pc = "feeTaken" /\ t.reason = "draw"
       \/ t.pc = "paid" /\ t.room.mode # "real"
    /\ tasks' = Finish(t)
    /\ hist' = Log({MatchResult(t), Ev("settled", t.roomId, t.socket, 0, t.reason)})
    /\ UNCHANGED <<ledger, registry, sockets, now, events, lobby>>

\* io.to(roomId).emit('match_result', ...); hDel('activeRooms', roomId)
SettleFinish(t) ==
    /\ t.h = "handleGameOver"
    /\ \/ t.pc = "recorded"
       \/ t.pc = "feeTaken" /\ t.reason = "draw"
       \/ t.pc = "paid" /\ t.room.mode # "real"
    /\ activeRooms' = hDel(activeRooms, t.roomId)
    /\ tasks' = Finish(t)
    /\ hist' = Log({MatchResult(t), Ev("settled", t.roomId, t.socket, 0, t.reason)})
    /\ UNCHANGED <<ledger, openChallenges, sockets, now, events, lobby>>

\* The next statement of the try block is sent to PostgreSQL and is rejected:
\* control passes to catch(err) { console.error("Game over error:", err) }.
SettleQueryFails(t) ==
    /\ t.h = "handleGameOver"
    /\ \/ t.pc = "marked"
       \/ t.pc = "winnerPaid"
       \/ t.pc = "paid" /\ t.room.mode = "real"
       \/ t.pc = "feeTaken" /\ t.reason # "draw"
    /\ events["failure"] < Cap("failure")
    /\ events' = [events EXCEPT !["failure"] = @ + 1]
    /\ tasks' = Replace(t, [t EXCEPT !.pc = "failed"])
    /\ hist' = Log({Ev("failed", t.roomId, t.socket, 0, t.reason)})
    /\ UNCHANGED <<ledger, registry, sockets, now, lobby>>

\* A catch block that puts the room back as not processed so that the payout can
\* be tried again: the variant C18 must tell from SettleAfterFailure.
SettleAfterFailureReopens(t) ==
    /\ t.h = "handleGameOver" /\ t.pc = "failed"
    /\ activeRooms' = hSet(activeRooms, t.roomId, [t.room EXCEPT !.processed = FALSE])
    /\ tasks' = Finish(t)
    /\ UNCHANGED <<ledger, openChallenges, sockets, now, events, lobby, hist>>

\* After the catch block: hDel('activeRooms', roomId)
SettleAfterFailure(t) ==
    /\ t.h = "handleGameOver" /\ t.pc = "failed"
    /\ activeRooms' = hDel(activeRooms, t.roomId)
    /\ tasks' = Finish(t)
    /\ UNCHANGED <<ledger, openChallenges, sockets, now, events, lobby, hist>>

(***************************************************************************)
(* game_over, timeout_loss, accept_draw                                    *)
(***************************************************************************)
\* hGet with an undefined key is refused by the client library: the handler's
\* promise rejects before any command is sent.
SignalWithoutRoom(s) ==
    /\ Receive(s, "signal")
    /\ sockets[s].roomId = NoRoomId
    /\ UNCHANGED <<ledger, registry, sockets, tasks, now, lobby, hist>>

\* handleGameOver(socket.roomId, data.winner === 'me' ? socket.id : null, 'regular')
GameOver(s, w) ==
    /\ Receive(s, "signal")
    /\ sockets[s].roomId # NoRoomId
    /\ tasks' = Spawn(HandleGameOverCall(s, sockets[s].roomId,
                                         IF w = "me" THEN s ELSE "null", "regular"))
    /\ UNCHANGED <<ledger, registry, sockets, now, lobby, hist>>

\* handleGameOver(socket.roomId, null, 'draw')
AcceptDraw(s) ==
    /\ Receive(s, "signal")
    /\ sockets[s].roomId # NoRoomId
    /\ tasks' = Spawn(HandleGameOverCall(s, sockets[s].roomId, "null", "draw"))
    /\ UNCHANGED <<ledger, registry, sockets, now, lobby, hist>>

\* if (!socket.roomId) return; hGet('activeRooms', socket.roomId)
TimeoutLoss(s) ==
    /\ Receive(s, "signal")
    /\ sockets[s].roomId # NoRoomId
    /\ tasks' = Spawn([NoTask EXCEPT !.h = "timeout_loss", !.pc = "roomRead",
                          !.socket = s, !.roomId = sockets[s].roomId,
                          !.found = hExists(activeRooms, sockets[s].roomId),
                          !.room = hGet(activeRooms, sockets[s].roomId, NoRoom)])
    /\ UNCHANGED <<ledger, registry, sockets, now, lobby, hist>>

\* room.p1.id === socket.id ? room.p2.id : room.p1.id
opponentId(room, s) == IF room.p1.id = s THEN room.p2.id ELSE room.p1.id

\* if (rawRoom) handleGameOver(socket.roomId, opponentId, 'timeout')
TimeoutSettle(t) ==
    /\ t.h = "timeout_loss" /\ t.pc = "roomRead"
    /\ tasks' = IF t.found
                THEN Replace(t, HandleGameOverCall(t.socket, sockets[t.socket].roomId,
                                    opponentId(t.room, t.socket), "timeout"))
                ELSE Finish(t)
    /\ hist' = IF t.found
               THEN Log({Ev("call", sockets[t.socket].roomId, t.socket, 0, "timeout")})
               ELSE hist
    /\ UNCHANGED <<ledger, registry, sockets, now, events, lobby>>

(***************************************************************************)
(* disconnect                                                              *)
(***************************************************************************)
\* The rooms not yet processed in which the session is a player.
OpenRoomsOf(s) ==
    {r \in DOMAIN activeRooms : /\ s \in {activeRooms[r].p1.id, activeRooms[r].p2.id}
                                /\ ~activeRooms[r].processed}

\* The connection closes; hGetAll('openChallenges').
Disconnect(s) ==
    /\ Receive(s, "disconnect")
    /\ sockets' = [sockets EXCEPT ![s].connected = FALSE, ![s].joined = {}]
    /\ tasks' = Spawn([NoTask EXCEPT !.h = "disconnect", !.pc = "listed",
                          !.socket = s, !.rawChallenges = openChallenges])
    /\ hist' = Log({Ev("left", rid, s, 0, "challenge") : rid \in Hosted(openChallenges, s)}
                   \cup {Ev("left", rid, s, 0, "room") : rid \in OpenRoomsOf(s)})
    /\ UNCHANGED <<ledger, registry, now, lobby>>

\* if (socket.roomId) hGet('activeRooms', socket.roomId)
DisconnectReadRoom(t) ==
    IF sockets[t.socket].roomId # NoRoomId
    THEN Replace(t, [t EXCEPT !.pc = "roomRead", !.roomId = sockets[t.socket].roomId,
                        !.found = hExists(activeRooms, sockets[t.socket].roomId),
                        !.room = hGet(activeRooms, sockets[t.socket].roomId, NoRoom)])
    ELSE Finish(t)

\* No entry has c.hostId === socket.id: on to the active game.
DisconnectNoChallenge(t) ==
    /\ t.h = "disconnect" /\ t.pc = "listed"
    /\ Hosted(t.rawChallenges, t.socket) = {}
    /\ tasks' = DisconnectReadRoom(t)
    /\ UNCHANGED <<ledger, registry, sockets, now, events, lobby, hist>>

\* UPDATE users SET balCol = balCol + c.stake WHERE id = c.userId
DisconnectCredit(t) ==
    /\ t.h = "disconnect" /\ t.pc = "listed"
    /\ \E rid \in Hosted(t.rawChallenges, t.socket) :
         LET c == t.rawChallenges[rid]
         IN /\ users' = Credit(users, c.userId, balCol(c.mode), c.stake)
            /\ tasks' = Replace(t, [t EXCEPT !.pc = "credited", !.roomId = rid, !.c = c])
            /\ hist' = Log({Ev("credit", rid, c.userId, c.stake, "disconnect")})
    /\ UNCHANGED <<admin_wallet, transactions, registry, sockets, now, events, lobby>>

\* hDel('openChallenges', roomId)
DisconnectRemove(t) ==
    /\ t.h = "disconnect" /\ t.pc = "credited"
    /\ openChallenges' = hDel(openChallenges, t.roomId)
    /\ tasks' = Replace(t, [t EXCEPT !.pc = "removed"])
    /\ UNCHANGED <<ledger, activeRooms, sockets, now, events, lobby, hist>>

\* broadcastLobby(): hGetAll('openChallenges')
DisconnectReadLobby(t) ==
    /\ t.h = "disconnect" /\ t.pc = "removed"
    /\ tasks' = Replace(t, [t EXCEPT !.pc = "lobbyRead", !.rawChallenges = openChallenges])
    /\ UNCHANGED <<ledger, registry, sockets, now, events, lobby, hist>>

\* io.emit('lobby_update'); on to the active game
DisconnectEmitLobby(t) ==
    /\ t.h = "disconnect" /\ t.pc = "lobbyRead"
    /\ lobby' = PublicOf(t.rawChallenges)
    /\ tasks' = DisconnectReadRoom(t)
    /\ UNCHANGED <<ledger, registry, sockets, now, events, hist>>

\* if (rawRoom && !room.processed) handleGameOver(socket.roomId, opponentId, 'abandon')
DisconnectAbandon(t) ==
    /\ t.h = "disconnect" /\ t.pc = "roomRead"
    /\ tasks' = IF t.found /\ ~t.room.processed
                THEN Replace(t, HandleGameOverCall(t.socket, sockets[t.socket].roomId,
                                    opponentId(t.room, t.socket), "abandon"))
                ELSE Finish(t)
    /\ hist' = IF t.found /\ ~t.room.processed
               THEN Log({Ev("call", sockets[t.socket].roomId, t.socket, 0, "abandon")})
               ELSE hist
    /\ UNCHANGED <<ledger, registry, sockets, now, events, lobby>>

(***************************************************************************)
(* The server: every event any session can send, every step of every      *)
(* handler in flight, from the empty lobby.                                *)
(***************************************************************************)
Next ==
    \/ Tick
    \/ \E s \in Sockets, stake \in Stakes, mode \in Modes, isPrivate \in BOOLEAN :
         CreateChallenge(s, stake, mode, isPrivate)
    \/ \E s \in Sockets, rid \in RoomIds : JoinChallenge(s, rid)
    \/ \E s \in Sockets : CancelChallenge(s)
    \/ \E s \in Sockets : SignalWithoutRoom(s)
    \/ \E s \in Sockets, w \in {"me", "opponent"} : GameOver(s, w)
    \/ \E s \in Sockets : AcceptDraw(s)
    \/ \E s \in Sockets : TimeoutLoss(s)
    \/ \E s \in Sockets : Disconnect(s)
    \/ \E t \in Running : CreateRefused(t)
    \/ \E t \in Running : CreateDebit(t)
    \/ \E t \in Running : CreateStore(t)
    \/ \E t \in Running : CreateReadLobby(t)
    \/ \E t \in Running : CreateEmitLobby(t)
    \/ \E t \in Running : JoinNotFound(t)
    \/ \E t \in Running : JoinSelf(t)
    \/ \E t \in Running : JoinSelect(t)
    \/ \E t \in Running : JoinRefused(t)
    \/ \E t \in Running : JoinRemove(t)
    \/ \E t \in Running : JoinReadLobby(t)
    \/ \E t \in Running : JoinDebit(t)
    \/ \E t \in Running : JoinStore(t)
    \/ \E t \in Running : JoinRecord(t)
    \/ \E t \in Running : JoinStart(t)
    \/ \E t \in Running : CancelNone(t)
    \/ \E t \in Running : CancelRemove(t)
    \/ \E t \in Running : CancelReadLobby(t)
    \/ \E t \in Running : CancelCredit(t)
    \/ \E t \in Running : CancelDone(t)
    \/ \E t \in Running : DisconnectNoChallenge(t)
    \/ \E t \in Running : DisconnectCredit(t)
    \/ \E t \in Running : DisconnectRemove(t)
    \/ \E t \in Running : DisconnectReadLobby(t)
    \/ \E t \in Running : DisconnectEmitLobby(t)
    \/ \E t \in Running : DisconnectAbandon(t)
    \/ \E t \in Running : SettleMark(t)
    \/ \E t \in Running : SettlePayWinner(t)
    \/ \E t \in Running : SettleRateLoser(t)
    \/ \E t \in Running : SettleFee(t)
    \/ \E t \in Running : SettleRecord(t)
    \/ \E t \in Running : SettleFinish(t)
    \/ \E t \in Running : SettleAbsent(t)
    \/ \E t \in Running : SettleProcessed(t)
    \/ \E t \in Running : SettleRefund(t)
    \/ \E t \in Running : TimeoutSettle(t)

Spec == Init /\ [][Next]_vars

(***************************************************************************)
(* The lobby: session s1 opens challenges, every session may join, s1 may  *)
(* cancel or disconnect.  A disconnect of s1 after its challenge was       *)
(* joined abandons the game, which is then settled.                        *)
(***************************************************************************)
Host == "s1"

NextLobby ==
    \/ Tick
    \/ \E stake \in Stakes, mode \in Modes, isPrivate \in BOOLEAN :
         CreateChallenge(Host, stake, mode, isPrivate)
    \/ \E s \in Sockets, rid \in RoomIds : JoinChallenge(s, rid)
    \/ CancelChallenge(Host)
    \/ Disconnect(Host)
    \/ \E t \in Running : CreateRefused(t)
    \/ \E t \in Running : CreateDebit(t)
    \/ \E t \in Running : CreateStore(t)
    \/ \E t \in Running : CreateReadLobby(t)
    \/ \E t \in Running : CreateEmitLobby(t)
    \/ \E t \in Running : JoinNotFound(t)
    \/ \E t \in Running : JoinSelf(t)
    \/ \E t \in Running : JoinSelect(t)
    \/ \E t \in Running : JoinRefused(t)
    \/ \E t \in Running : JoinRemove(t)
    \/ \E t \in Running : JoinReadLobby(t)
    \/ \E t \in Running : JoinDebit(t)
    \/ \E t \in Running : JoinStore(t)
    \/ \E t \in Running : JoinRecord(t)
    \/ \E t \in Running : JoinStart(t)
    \/ \E t \in Running : CancelNone(t)
    \/ \E t \in Running : CancelRemove(t)
    \/ \E t \in Running : CancelReadLobby(t)
    \/ \E t \in Running : CancelCredit(t)
    \/ \E t \in Running : CancelDone(t)
    \/ \E t \in Running : DisconnectNoChallenge(t)
    \/ \E t \in Running : DisconnectCredit(t)
    \/ \E t \in Running : DisconnectRemove(t)
    \/ \E t \in Running : DisconnectReadLobby(t)
    \/ \E t \in Running : DisconnectEmitLobby(t)
    \/ \E t \in Running : DisconnectAbandon(t)
    \/ \E t \in Running : SettleMark(t)
    \/ \E t \in Running : SettlePayWinner(t)
    \/ \E t \in Running : SettleRateLoser(t)
    \/ \E t \in Running : SettleFee(t)
    \/ \E t \in Running : SettleRecord(t)
    \/ \E t \in Running : SettleFinish(t)

SpecLobby == Init /\ [][NextLobby]_vars

(***************************************************************************)
(* The match: s1 opened a public challenge in the first millisecond and s2 *)
(* joined it; both handlers have finished.  A join of the same challenge   *)
(* by s3, which read the challenge and its balance before s2's join        *)
(* removed it, may still be in flight.  The two players then send          *)
(* completion signals and disconnect.                                      *)
(***************************************************************************)
Joiner == "s2"
Late == "s3"
Players == {Host, Joiner}
MatchRoomId == <<"pub_", 1>>

Opened(stake, mode) ==
    NewChallenge([NoTask EXCEPT !.socket = Host, !.roomId = MatchRoomId,
                                !.stake = stake, !.mode = mode])
Joining(s, c) ==
    [NoTask EXCEPT !.h = "join_challenge", !.pc = "selected", !.socket = s,
                   !.roomId = c.roomId, !.found = TRUE, !.c = c, !.bal = InitBalance]

\* The match formed by accounts that each held this balance in both modes.
FormedFrom(balance, stake, mode, racing) ==
    LET c == Opened(stake, mode)
        col == balCol(mode)
    IN /\ users = Debit(Debit([u \in Users |-> [real_balance |-> balance,
                                   demo_balance |-> balance, elo |-> 1200]],
                              userId(Host), col, stake), userId(Joiner), col, stake)
       /\ admin_wallet = 0
       /\ transactions = IF mode = "real"
                         THEN SetToBag({TxRow(userId(Host), "ENTRY_FEE", stake, "PENDING"),
                                        TxRow(userId(Joiner), "ENTRY_FEE", stake, "PENDING")})
                         ELSE EmptyBag
       /\ openChallenges = NoHash
       /\ activeRooms = hSet([r \in {} |-> NoRoom], MatchRoomId, NewRoom(Joining(Joiner, c)))
       /\ sockets = [s \in Sockets |->
                       IF s \in Players
                       THEN [connected |-> TRUE, roomId |-> MatchRoomId,
                             userId |-> userId(s), joined |-> {MatchRoomId}]
                       ELSE [connected |-> TRUE, roomId |-> NoRoomId,
                             userId |-> "", joined |-> {}]]
       /\ tasks = IF racing THEN SetToBag({[Joining(Late, c) EXCEPT !.bal = balance]})
                            ELSE EmptyBag
       /\ now = 1
       /\ lobby = {}
       /\ hist = SetToBag({Ev("debit", MatchRoomId, userId(Host), stake, "create"),
                           Ev("stored", MatchRoomId, Host, stake, mode),
                           Ev("game_created", MatchRoomId, Host, 0, ""),
                           Ev("debit", MatchRoomId, userId(Joiner), stake, "join"),
                           Ev("room", MatchRoomId, Joiner, stake, mode),
                           Ev("game_start", MatchRoomId, Joiner, stake, Host)})

Formed(stake, mode, racing) == FormedFrom(InitBalance, stake, mode, racing)

InitMatch ==
    /\ \E stake \in Stakes, mode \in Modes, racing \in BOOLEAN : Formed(stake, mode, racing)
    /\ events = [k \in Kinds |-> 0]

\* One of the two players sends a completion signal or disconnects.
MatchEvent ==
    /\ Total(events) < MaxMatchEvents
    /\ \/ \E s \in Players, w \in {"me", "opponent"} : GameOver(s, w)
       \/ \E s \in Players : AcceptDraw(s)
       \/ \E s \in Players : TimeoutLoss(s)
       \/ \E s \in Players : Disconnect(s)

NextMatch ==
    \/ MatchEvent
    \/ \E t \in Running : SettleMark(t)
    \/ \E t \in Running : SettlePayWinner(t)
    \/ \E t \in Running : SettleRateLoser(t)
    \/ \E t \in Running : SettleFee(t)
    \/ \E t \in Running : SettleRecord(t)
    \/ \E t \in Running : SettleFinish(t)
    \/ \E t \in Running : SettleAbsent(t)
    \/ \E t \in Running : SettleProcessed(t)
    \/ \E t \in Running : SettleRefund(t)
    \/ \E t \in Running : TimeoutSettle(t)
    \/ \E t \in Running : DisconnectNoChallenge(t)
    \/ \E t \in Running : DisconnectAbandon(t)
    \/ \E t \in Running : JoinRemove(t)
    \/ \E t \in Running : JoinReadLobby(t)
    \/ \E t \in Running : JoinDebit(t)
    \/ \E t \in Running : JoinStore(t)
    \/ \E t \in Running : JoinRecord(t)
    \/ \E t \in Running : JoinStart(t)

SpecMatch == InitMatch /\ [][NextMatch]_vars

(***************************************************************************)
(* The payout: a match of any stake the players can afford, no join in     *)
(* flight, and completion signals that arrive one after the other.         *)
(***************************************************************************)
InitPayout ==
    /\ \E stake \in 1..InitBalance, mode \in Modes : Formed(stake, mode, FALSE)
    /\ events = [k \in Kinds |-> 0]

NextPayout ==
    \/ tasks = EmptyBag /\ \E s \in Players, w \in {"me", "opponent"} : GameOver(s, w)
    \/ tasks = EmptyBag /\ \E s \in Players : AcceptDraw(s)
    \/ tasks = EmptyBag /\ \E s \in Players : TimeoutLoss(s)
    \/ \E t \in Running : SettleMark(t)
    \/ \E t \in Running : SettlePayWinner(t)
    \/ \E t \in Running : SettleRateLoser(t)
    \/ \E t \in Running : SettleFee(t)
    \/ \E t \in Running : SettleRecord(t)
    \/ \E t \in Running : SettleFinish(t)
    \/ \E t \in Running : SettleAbsent(t)
    \/ \E t \in Running : SettleRefund(t)
    \/ \E t \in Running : TimeoutSettle(t)

SpecPayout == InitPayout /\ [][NextPayout]_vars

(***************************************************************************)
(* The single-process revision (server.js): the rooms are an object of the *)
(* process, and handleGameOver runs without a pause from the lookup of the *)
(* room to room.processed = true.  Its payout statements and the delete of *)
(* the room are those of the steps above.                                  *)
(***************************************************************************)
\* const room = activeRooms[roomId]; if (!room || room.processed) return;
\* room.processed = true; ... the first pool.query is sent
HandleGameOverInMemory(s, rid, winnerSocketId, reason) ==
    IF hExists(activeRooms, rid) /\ ~activeRooms[rid].processed
    THEN LET room == [activeRooms[rid] EXCEPT !.processed = TRUE]
         IN /\ activeRooms' = hSet(activeRooms, rid, room)
            /\ tasks' = Spawn([NoTask EXCEPT !.h = "handleGameOver", !.pc = "marked",
                                  !.socket = s, !.roomId = rid,
                                  !.winnerSocketId = winnerSocketId, !.reason = reason,
                                  !.found = TRUE, !.room = room])
            /\ hist' = Log({Ev("marked", rid, s, 0, reason)})
    ELSE UNCHANGED <<activeRooms, tasks, hist>>

\* socket.on('game_over', (data) => handleGameOver(socket.roomId, ...))
GameOverInMemory(s, w) ==
    /\ Receive(s, "signal")
    /\ HandleGameOverInMemory(s, sockets[s].roomId, IF w = "me" THEN s ELSE "null", "regular")
    /\ UNCHANGED <<ledger, openChallenges, sockets, now, lobby>>

\* socket.on('accept_draw', () => handleGameOver(socket.roomId, null, 'draw'))
AcceptDrawInMemory(s) ==
    /\ Receive(s, "signal")
    /\ HandleGameOverInMemory(s, sockets[s].roomId, "null", "draw")
    /\ UNCHANGED <<ledger, openChallenges, sockets, now, lobby>>

\* handleGameOver(socket.roomId, activeRooms[socket.roomId]?.p1.id === socket.id
\*     ? activeRooms[socket.roomId].p2.id : activeRooms[socket.roomId].p1.id, 'timeout')
\* Without the room, undefined?.p1.id === socket.id is false and the third operand
\* reads .p1 of undefined: the handler throws a TypeError.
TimeoutLossInMemory(s) ==
    /\ Receive(s, "signal")
    /\ LET rid == sockets[s].roomId
       IN IF hExists(activeRooms, rid)
          THEN HandleGameOverInMemory(s, rid, opponentId(activeRooms[rid], s), "timeout")
          ELSE /\ hist' = Log({Ev("TypeError", rid, s, 0, "timeout")})
               /\ UNCHANGED <<activeRooms, tasks>>
    /\ UNCHANGED <<ledger, openChallenges, sockets, now, lobby>>

NextMemory ==
    \/ \E s \in Sockets, w \in {"me", "opponent"} : GameOverInMemory(s, w)
    \/ \E s \in Sockets : AcceptDrawInMemory(s)
    \/ \E s \in Sockets : TimeoutLossInMemory(s)
    \/ \E t \in Running : SettleRefund(t)
    \/ \E t \in Running : SettlePayWinner(t)
    \/ \E t \in Running : SettleRateLoser(t)
    \/ \E t \in Running : SettleFee(t)
    \/ \E t \in Running : SettleRecord(t)
    \/ \E t \in Running : SettleFinish(t)

SpecMemory == InitPayout /\ [][NextMemory]_vars

(***************************************************************************)
(* The lobby of the single-process revision (server.js): openChallenges is *)
(* an array of the process.  create_challenge, join_challenge and          *)
(* cancel_challenge look it up and change it between their queries; the    *)
(* queries, the room and the events they emit are those of the steps       *)
(* above.                                                                  *)
(***************************************************************************)
\* openChallenges.findIndex(c => c.roomId === roomId): the first position, counted
\* from 0, or -1
findIndexByRoomId(list, rid) ==
    LET S == {i \in DOMAIN list : list[i].roomId = rid}
    IN IF S = {} THEN 0 - 1 ELSE (CHOOSE i \in S : \A j \in S : i <= j) - 1

\* openChallenges.findIndex(c => c.hostId === socket.id)
findIndexByHostId(list, s) ==
    LET S == {i \in DOMAIN list : list[i].hostId = s}
    IN IF S = {} THEN 0 - 1 ELSE (CHOOSE i \in S : \A j \in S : i <= j) - 1

\* openChallenges.splice(index, 1): a negative index counts from the end, an
\* index past the end removes nothing
splice(list, index) ==
    LET len == Len(list)
        start == IF index < 0 THEN (IF len + index < 0 THEN 0 ELSE len + index)
                 ELSE (IF index > len THEN len ELSE index)
    IN IF start < len
       THEN [i \in 1..(len - 1) |-> IF i <= start THEN list[i] ELSE list[i + 1]]
       ELSE list

\* openChallenges.push(challenge); socket.emit('game_created');
\* if (!isPrivate) io.emit('lobby_update', ...); if (mode === 'real') INSERT
CreatePushInMemory(t) ==
    /\ t.h = "create_challenge" /\ t.pc = "debited"
    /\ sockets' = Associate(t.socket, t.roomId)
    /\ openChallenges' = Append(openChallenges, NewChallenge(t))
    /\ lobby' = IF t.isPrivate THEN lobby ELSE PublicOf(openChallenges')
    /\ transactions' = IF t.mode = "real"
                       THEN transactions (+) SetToBag({TxRow(userId(t.socket),
                                "ENTRY_FEE", t.stake, "PENDING")})
                       ELSE transactions
    /\ tasks' = Finish(t)
    /\ hist' = Log({Ev("stored", t.roomId, t.socket, t.stake, t.mode),
                    Ev("game_created", t.roomId, t.socket, 0, "")})
    /\ UNCHANGED <<users, admin_wallet, activeRooms, now, events>>

\* The event arrives: challengeIndex = findIndex(...); the two refusals; SELECT
JoinInMemory(s, rid) ==
    /\ Receive(s, "join")
    /\ LET index == findIndexByRoomId(openChallenges, rid)
       IN IF index = 0 - 1
          THEN /\ hist' = Log({Ev("error", rid, s, 0, "Mechi haipatikani.")})
               /\ tasks' = tasks
          ELSE LET challenge == openChallenges[index + 1]
               IN IF challenge.userId = userId(s)
                  THEN /\ hist' = Log({Ev("error", rid, s, 0, "Huwezi kucheza dhidi yako!")})
                       /\ tasks' = tasks
                  ELSE /\ tasks' = Spawn([NoTask EXCEPT
                              !.h = "join_challenge", !.pc = "selected", !.socket = s,
                              !.roomId = rid, !.found = TRUE, !.c = challenge,
                              !.challengeIndex = index,
                              !.bal = users[userId(s)][balCol(challenge.mode)]])
                       /\ hist' = hist
    /\ UNCHANGED <<ledger, registry, sockets, now, lobby>>

\* openChallenges.splice(challengeIndex, 1); io.emit('lobby_update', ...);
\* UPDATE users SET balCol = balCol - stake WHERE id = userId
JoinSpliceInMemory(t) ==
    /\ t.h = "join_challenge" /\ t.pc = "selected"
    /\ ~(t.bal < t.c.stake)
    /\ openChallenges' = splice(openChallenges, t.challengeIndex)
    /\ lobby' = PublicOf(openChallenges')
    /\ users' = Debit(users, userId(t.socket), balCol(t.c.mode), t.c.stake)
    /\ tasks' = Replace(t, [t EXCEPT !.pc = "debited"])
    /\ hist' = Log({Ev("debit", t.roomId, userId(t.socket), t.c.stake, "join")})
    /\ UNCHANGED <<admin_wallet, transactions, activeRooms, sockets, now, events>>

\* idx = findIndex(c => c.hostId === socket.id); if (idx !== -1) { splice(idx, 1);
\* io.emit('lobby_update', ...); UPDATE users SET balCol = balCol + stake }
CancelInMemory(s) ==
    /\ Receive(s, "cancel")
    /\ LET idx == findIndexByHostId(openChallenges, s)
       IN IF idx = 0 - 1
          THEN UNCHANGED <<users, openChallenges, lobby, tasks, hist>>
          ELSE LET c == openChallenges[idx + 1]
               IN /\ openChallenges' = splice(openChallenges, idx)
                  /\ lobby' = PublicOf(openChallenges')
                  /\ users' = Credit(users, c.userId, balCol(c.mode), c.stake)
                  /\ tasks' = Spawn([NoTask EXCEPT !.h = "cancel_challenge",
                                        !.pc = "credited", !.socket = s,
                                        !.roomId = c.roomId, !.c = c])
                  /\ hist' = Log({Ev("credit", c.roomId, c.userId, c.stake, "cancel")})
    /\ UNCHANGED <<admin_wallet, transactions, activeRooms, sockets, now>>

\* Two sessions have each created a challenge, one public and one private.
FirstRoomId == <<"pub_", 1>>
SecondRoomId == <<"priv", 1>>

InitArray ==
    \E stake \in Stakes, mode \in Modes :
        LET first == NewChallenge([NoTask EXCEPT !.socket = Host, !.roomId = FirstRoomId,
                                                !.stake = stake, !.mode = mode])
            second == NewChallenge([NoTask EXCEPT !.socket = Joiner,
                                                 !.roomId = SecondRoomId, !.stake = stake,
                                                 !.mode = mode, !.isPrivate = TRUE])
        IN /\ users = Debit(Debit([u \in Users |-> [real_balance |-> InitBalance,
                                        demo_balance |-> InitBalance, elo |-> 1200]],
                                  userId(Host), balCol(mode), stake),
                            userId(Joiner), balCol(mode), stake)
           /\ admin_wallet = 0
           /\ transactions = IF mode = "real"
                             THEN SetToBag({TxRow(userId(Host), "ENTRY_FEE", stake, "PENDING"),
                                            TxRow(userId(Joiner), "ENTRY_FEE", stake, "PENDING")})
                             ELSE EmptyBag
           /\ openChallenges = <<first, second>>
           /\ activeRooms = [r \in {} |-> NoRoom]
           /\ sockets = [s \in Sockets |->
                           IF s = Host
                           THEN [connected |-> TRUE, roomId |-> FirstRoomId,
                                 userId |-> userId(s), joined |-> {FirstRoomId}]
                           ELSE IF s = Joiner
                           THEN [connected |-> TRUE, roomId |-> SecondRoomId,
                                 userId |-> userId(s), joined |-> {SecondRoomId}]
                           ELSE [connected |-> TRUE, roomId |-> NoRoomId,
                                 userId |-> "", joined |-> {}]]
           /\ tasks = EmptyBag
           /\ now = 1
           /\ events = [k \in Kinds |-> 0]
           /\ lobby = {first}
           /\ hist = SetToBag({Ev("debit", FirstRoomId, userId(Host), stake, "create"),
                               Ev("stored", FirstRoomId, Host, stake, mode),
                               Ev("game_created", FirstRoomId, Host, 0, ""),
                               Ev("debit", SecondRoomId, userId(Joiner), stake, "create"),
                               Ev("stored", SecondRoomId, Joiner, stake, mode),
                               Ev("game_created", SecondRoomId, Joiner, 0, "")})

NextArray ==
    \/ Tick
    \/ \E s \in Sockets, stake \in Stakes, mode \in Modes, isPrivate \in BOOLEAN :
         CreateChallenge(s, stake, mode, isPrivate)
    \/ \E s \in Sockets, rid \in RoomIds : JoinInMemory(s, rid)
    \/ \E s \in Sockets : CancelInMemory(s)
    \/ \E t \in Running : CreateRefused(t)
    \/ \E t \in Running : CreateDebit(t)
    \/ \E t \in Running : CreatePushInMemory(t)
    \/ \E t \in Running : JoinRefused(t)
    \/ \E t \in Running : JoinSpliceInMemory(t)
    \/ \E t \in Running : JoinStore(t)
    \/ \E t \in Running : JoinRecord(t)
    \/ \E t \in Running : JoinStart(t)
    \/ \E t \in Running : CancelDone(t)

SpecArray == InitArray /\ [][NextArray]_vars

(***************************************************************************)
(* The wallet: a match of stake 100 between accounts that held 100 in each *)
(* mode, and completion signals that arrive one after the other.           *)
(***************************************************************************)
InitWallet ==
    /\ \E mode \in Modes : FormedFrom(100, 100, mode, FALSE)
    /\ events = [k \in Kinds |-> 0]

SpecWallet == InitWallet /\ [][NextPayout]_vars

(***************************************************************************)
(* The session: the same match, and events of the two players that arrive  *)
(* one after the other, each when the handler before it has finished: a    *)
(* player opens further challenges, signals a timeout, disconnects.  The   *)
(* third session opens challenges too, and every session asks to join.     *)
(***************************************************************************)
InitSession ==
    /\ \E stake \in Stakes, mode \in Modes : Formed(stake, mode, FALSE)
    /\ events = [k \in Kinds |-> 0]

NextSession ==
    \/ Tick
    \/ tasks = EmptyBag /\ \E s \in Sockets, stake \in Stakes, mode \in Modes,
                               isPrivate \in BOOLEAN :
                               CreateChallenge(s, stake, mode, isPrivate)
    \/ tasks = EmptyBag /\ \E s \in Sockets, rid \in RoomIds : JoinChallenge(s, rid)
    \/ tasks = EmptyBag /\ \E s \in Players : TimeoutLoss(s)
    \/ tasks = EmptyBag /\ \E s \in Players : Disconnect(s)
    \/ \E t \in Running : CreateRefused(t)
    \/ \E t \in Running : CreateDebit(t)
    \/ \E t \in Running : CreateStore(t)
    \/ \E t \in Running : CreateReadLobby(t)
    \/ \E t \in Running : CreateEmitLobby(t)
    \/ \E t \in Running : JoinNotFound(t)
    \/ \E t \in Running : JoinSelf(t)
    \/ \E t \in Running : JoinSelect(t)
    \/ \E t \in Running : JoinRefused(t)
    \/ \E t \in Running : JoinRemove(t)
    \/ \E t \in Running : JoinReadLobby(t)
    \/ \E t \in Running : JoinDebit(t)
    \/ \E t \in Running : JoinStore(t)
    \/ \E t \in Running : JoinRecord(t)
    \/ \E t \in Running : JoinStart(t)
    \/ \E t \in Running : TimeoutSettle(t)
    \/ \E t \in Running : DisconnectNoChallenge(t)
    \/ \E t \in Running : DisconnectCredit(t)
    \/ \E t \in Running : DisconnectRemove(t)
    \/ \E t \in Running : DisconnectReadLobby(t)
    \/ \E t \in Running : DisconnectEmitLobby(t)
    \/ \E t \in Running : DisconnectAbandon(t)
    \/ \E t \in Running : SettleMark(t)
    \/ \E t \in Running : SettlePayWinner(t)
    \/ \E t \in Running : SettleRateLoser(t)
    \/ \E t \in Running : SettleFee(t)
    \/ \E t \in Running : SettleRecord(t)
    \/ \E t \in Running : SettleFinish(t)

SpecSession == InitSession /\ [][NextSession]_vars

(***************************************************************************)
(* The ratings: the formed match and every event a session can send, one   *)
(* request after the other, the relayed ones (make_move, offer_draw)       *)
(* included.                                                               *)
(***************************************************************************)
\* A move that also marks the room of the session processed: the variant C33
\* must tell from MakeMove.
MakeMoveEndsGame(s) ==
    /\ Receive(s, "signal")
    /\ sockets[s].roomId # NoRoomId
    /\ hist' = Log({Ev("opponent_move", sockets[s].roomId, s, 0, "")})
    /\ activeRooms' = [r \in DOMAIN activeRooms |->
                         IF r = sockets[s].roomId
                         THEN [activeRooms[r] EXCEPT !.processed = TRUE]
                         ELSE activeRooms[r]]
    /\ UNCHANGED <<ledger, openChallenges, sockets, tasks, now, lobby>>

\* if (socket.roomId) socket.to(socket.roomId).emit('opponent_move', data)
MakeMove(s) ==
    /\ Receive(s, "signal")
    /\ hist' = IF sockets[s].roomId # NoRoomId
               THEN Log({Ev("opponent_move", sockets[s].roomId, s, 0, "")})
               ELSE hist
    /\ UNCHANGED <<ledger, registry, sockets, tasks, now, lobby>>

\* socket.to(socket.roomId).emit('draw_offered')
OfferDraw(s) ==
    /\ Receive(s, "signal")
    /\ hist' = Log({Ev("draw_offered", sockets[s].roomId, s, 0, "")})
    /\ UNCHANGED <<ledger, registry, sockets, tasks, now, lobby>>

NextRatings ==
    \/ Tick
    \/ tasks = EmptyBag /\ \E s \in Sockets, stake \in Stakes, mode \in Modes,
                               isPrivate \in BOOLEAN :
                               CreateChallenge(s, stake, mode, isPrivate)
    \/ tasks = EmptyBag /\ \E s \in Sockets, rid \in RoomIds : JoinChallenge(s, rid)
    \/ tasks = EmptyBag /\ \E s \in Sockets : CancelChallenge(s)
    \/ tasks = EmptyBag /\ \E s \in Players : MakeMove(s)
    \/ tasks = EmptyBag /\ \E s \in Players : OfferDraw(s)
    \/ tasks = EmptyBag /\ \E s \in Players, w \in {"me", "opponent"} : GameOver(s, w)
    \/ tasks = EmptyBag /\ \E s \in Players : AcceptDraw(s)
    \/ tasks = EmptyBag /\ \E s \in Players : TimeoutLoss(s)
    \/ tasks = EmptyBag /\ \E s \in Sockets : Disconnect(s)
    \/ \E t \in Running : CreateRefused(t)
    \/ \E t \in Running : CreateDebit(t)
    \/ \E t \in Running : CreateStore(t)
    \/ \E t \in Running : CreateReadLobby(t)
    \/ \E t \in Running : CreateEmitLobby(t)
    \/ \E t \in Running : JoinNotFound(t)
    \/ \E t \in Running : JoinSelf(t)
    \/ \E t \in Running : JoinSelect(t)
    \/ \E t \in Running : JoinRefused(t)
    \/ \E t \in Running : JoinRemove(t)
    \/ \E t \in Running : JoinReadLobby(t)
    \/ \E t \in Running : JoinDebit(t)
    \/ \E t \in Running : JoinStore(t)
    \/ \E t \in Running : JoinRecord(t)
    \/ \E t \in Running : JoinStart(t)
    \/ \E t \in Running : CancelNone(t)
    \/ \E t \in Running : CancelRemove(t)
    \/ \E t \in Running : CancelReadLobby(t)
    \/ \E t \in Running : CancelCredit(t)
    \/ \E t \in Running : CancelDone(t)
    \/ \E t \in Running : TimeoutSettle(t)
    \/ \E t \in Running : DisconnectNoChallenge(t)
    \/ \E t \in Running : DisconnectCredit(t)
    \/ \E t \in Running : DisconnectRemove(t)
    \/ \E t \in Running : DisconnectReadLobby(t)
    \/ \E t \in Running : DisconnectEmitLobby(t)
    \/ \E t \in Running : DisconnectAbandon(t)
    \/ \E t \in Running : SettleAbsent(t)
    \/ \E t \in Running : SettleMark(t)
    \/ \E t \in Running : SettleRefund(t)
    \/ \E t \in Running : SettlePayWinner(t)
    \/ \E t \in Running : SettleRateLoser(t)
    \/ \E t \in Running : SettleFee(t)
    \/ \E t \in Running : SettleRecord(t)
    \/ \E t \in Running : SettleFinish(t)

SpecRatings == InitSession /\ [][NextRatings]_vars

(***************************************************************************)
(* The stake: one session opens challenges with whatever stake its client  *)
(* sends, positive, zero or negative, and cancels.                         *)
(***************************************************************************)
AnyStakes == Stakes \cup {0, 0 - StakeLow}

NextStake ==
    \/ Tick
    \/ \E stake \in AnyStakes, mode \in Modes, isPrivate \in BOOLEAN :
          CreateChallenge(Host, stake, mode, isPrivate)
    \/ CancelChallenge(Host)
    \/ \E t \in Running : CreateRefused(t)
    \/ \E t \in Running : CreateDebit(t)
    \/ \E t \in Running : CreateStore(t)
    \/ \E t \in Running : CreateReadLobby(t)
    \/ \E t \in Running : CreateEmitLobby(t)
    \/ \E t \in Running : CancelNone(t)
    \/ \E t \in Running : CancelRemove(t)
    \/ \E t \in Running : CancelReadLobby(t)
    \/ \E t \in Running : CancelCredit(t)
    \/ \E t \in Running : CancelDone(t)

SpecStake == Init /\ [][NextStake]_vars

(***************************************************************************)
(* The failing ledger: the match with no join in flight, the two players'  *)
(* completion signals and disconnects, and a statement of a settlement     *)
(* that PostgreSQL rejects.                                                *)
(***************************************************************************)
InitFault ==
    /\ \E stake \in Stakes, mode \in Modes : Formed(stake, mode, FALSE)
    /\ events = [k \in Kinds |-> 0]

NextFault ==
    \/ MatchEvent
    \/ \E t \in Running : SettleAbsent(t)
    \/ \E t \in Running : SettleProcessed(t)
    \/ \E t \in Running : SettleMark(t)
    \/ \E t \in Running : SettleRefund(t)
    \/ \E t \in Running : SettlePayWinner(t)
    \/ \E t \in Running : SettleRateLoser(t)
    \/ \E t \in Running : SettleFee(t)
    \/ \E t \in Running : SettleRecord(t)
    \/ \E t \in Running : SettleFinish(t)
    \/ \E t \in Running : SettleQueryFails(t)
    \/ \E t \in Running : SettleAfterFailure(t)
    \/ \E t \in Running : TimeoutSettle(t)
    \/ \E t \in Running : DisconnectNoChallenge(t)
    \/ \E t \in Running : DisconnectAbandon(t)

SpecFault == InitFault /\ [][NextFault]_vars

\* A handler that awaits a reply of Redis or PostgreSQL is resumed by the event
\* loop once the reply, or the rejection, has arrived.
FaultResumed ==
    \E t \in Running :
        \/ SettleAbsent(t) \/ SettleProcessed(t) \/ SettleMark(t) \/ SettleRefund(t)
        \/ SettlePayWinner(t) \/ SettleRateLoser(t) \/ SettleFee(t) \/ SettleRecord(t)
        \/ SettleFinish(t) \/ SettleQueryFails(t) \/ SettleAfterFailure(t)
        \/ TimeoutSettle(t) \/ DisconnectNoChallenge(t) \/ DisconnectAbandon(t)

SpecFaultFair == SpecFault /\ WF_vars(FaultResumed)

(***************************************************************************)
(* The outage: one session opens challenges and every session asks to join *)
(* them, one request after the other, and a write to the registry is       *)
(* rejected.                                                               *)
(***************************************************************************)
NextOutage ==
    \/ Tick
    \/ tasks = EmptyBag /\ \E stake \in Stakes, mode \in Modes, isPrivate \in BOOLEAN :
                               CreateChallenge(Host, stake, mode, isPrivate)
    \/ tasks = EmptyBag /\ \E s \in Sockets, rid \in RoomIds : JoinChallenge(s, rid)
    \/ \E t \in Running : CreateRefused(t)
    \/ \E t \in Running : CreateDebit(t)
    \/ \E t \in Running : CreateStore(t)
    \/ \E t \in Running : CreateStoreFails(t)
    \/ \E t \in Running : CreateReadLobby(t)
    \/ \E t \in Running : CreateEmitLobby(t)
    \/ \E t \in Running : JoinNotFound(t)
    \/ \E t \in Running : JoinSelf(t)
    \/ \E t \in Running : JoinSelect(t)
    \/ \E t \in Running : JoinRemove(t)
    \/ \E t \in Running : JoinReadLobby(t)
    \/ \E t \in Running : JoinDebit(t)
    \/ \E t \in Running : JoinStore(t)
    \/ \E t \in Running : JoinStoreFails(t)
    \/ \E t \in Running : JoinRecord(t)
    \/ \E t \in Running : JoinStart(t)

SpecOutage == Init /\ [][NextOutage]_vars

(***************************************************************************)
(* The initial states of the match and of the payout are states the lobby  *)
(* reaches: TLC finds each of these violated under SpecLobby.              *)
(***************************************************************************)
MatchNotReached == \A stake \in Stakes, mode \in Modes : ~Formed(stake, mode, FALSE)
RacingMatchNotReached == \A stake \in Stakes, mode \in Modes : ~Formed(stake, mode, TRUE)

(***************************************************************************)
(* What the log says about a room or a challenge.                          *)
(***************************************************************************)
\* Challenges stored under this roomId, rooms stored under it.
Stored(rid) == Num("stored", rid, Modes)
Rooms(rid) == Num("room", rid, Modes)
\* Winner credits and draw refunds applied for the room, loser ratings written.
Payouts(rid) == Num("payout", rid, Reasons) + Num("refund", rid, Reasons)
Ratings(rid) == Num("rated", rid, Reasons)
\* Settlements that marked the room processed, settlements that ran to the end.
Marked(rid) == Num("marked", rid, Reasons)
Settled(rid) == Num("settled", rid, Reasons)
\* Stakes credited back to the creator of the challenge.
Credits(rid) == Num("credit", rid, {"cancel", "disconnect"})
\* The accounts debited as joiners of the challenge, the sessions that a
\* game_start made the joiner of its room.
JoinersDebited(rid) ==
    {e[3] : e \in {x \in BagToSet(hist) : x[1] = "debit" /\ x[2] = rid /\ x[5] = "join"}}
JoinersStarted(rid) ==
    {e[3] : e \in {x \in BagToSet(hist) : x[1] = "game_start" /\ x[2] = rid}}
\* The challenges in the registry that the session had created when it disconnected.
LeftChallenges(s) ==
    {rid \in RoomIds : CopiesIn(Ev("left", rid, s, 0, "challenge"), hist) >= 1}
\* The calls of handleGameOver in flight for the room.
Settling(rid) == {t \in Running : t.h = "handleGameOver" /\ t.roomId = rid}
\* Task t takes a step; a task u starts.
Steps(t) == CopiesIn(t, tasks') < CopiesIn(t, tasks)
Starts(u) == CopiesIn(u, tasks') > CopiesIn(u, tasks)

(***************************************************************************)
(* C1.  For every room, however many times settlement is invoked and        *)
(* however its awaited steps interleave, one payout or refund at most is    *)
(* applied and one pair of rating updates at most.  Stated here for a room  *)
(* that was stored once.                                                    *)
(***************************************************************************)
C1_SettledOnce ==
    \A rid \in RoomIds : Rooms(rid) = 1 => Payouts(rid) <= 1 /\ Ratings(rid) <= 1

(***************************************************************************)
(* C2.  A challenge is joined by one joiner at most: of the accounts that   *)
(* ask to join a challenge, one at most is debited and one at most is made  *)
(* the joiner of a room by a game_start.  Stated for a roomId under which   *)
(* one challenge was stored.                                                *)
(***************************************************************************)
C2_OneJoiner ==
    \A rid \in RoomIds :
        Stored(rid) = 1 => /\ Cardinality(JoinersDebited(rid)) <= 1
                           /\ Cardinality(JoinersStarted(rid)) <= 1

(***************************************************************************)
(* C3.  The creator's stake is credited back once at most, and never when   *)
(* a room is formed from the challenge.  Stated for a roomId under which    *)
(* one challenge was stored.                                                *)
(***************************************************************************)
C3_RefundedOnce ==
    \A rid \in RoomIds :
        Stored(rid) = 1 => Credits(rid) <= 1 /\ (Rooms(rid) >= 1 => Credits(rid) = 0)

(***************************************************************************)
(* C4.  Once a settlement of a room has run to completion, a later call of  *)
(* handleGameOver for the same roomId, made when no other call for it is    *)
(* in flight, finds the room absent.                                        *)
(***************************************************************************)
C4_LateSettleFindsNothing ==
    [][\A u \in BagToSet(tasks') :
          (/\ u.h = "handleGameOver" /\ u.pc = "got" /\ Starts(u)
           /\ Settled(u.roomId) >= 1
           /\ Settling(u.roomId) = {})
          => ~u.found]_vars

(***************************************************************************)
(* C5.  No balance of any account is ever negative.                         *)
(***************************************************************************)
C5_NoNegativeBalance ==
    \A u \in Users : users[u].real_balance >= 0 /\ users[u].demo_balance >= 0

(***************************************************************************)
(* C6.  A create_challenge compares the stake with the balance the account *)
(* has in the selected mode when the request arrives, and a request whose  *)
(* stake exceeds it ends there: no balance changes, no challenge is        *)
(* stored, and the session is sent the insufficient-funds error.           *)
(***************************************************************************)
InsufficientFunds(s) == Ev("error", NoRoomId, s, 0, "Salio Halitoshi!")

C6_ShortCreateRefused ==
    [][/\ \A u \in BagToSet(tasks') :
            (u.h = "create_challenge" /\ Starts(u) /\ u.pc = "selected")
            => u.bal = users[userId(u.socket)][balCol(u.mode)]
       /\ \A t \in Running :
            (t.h = "create_challenge" /\ t.pc = "selected" /\ t.stake > t.bal /\ Steps(t))
            => /\ users' = users
               /\ openChallenges' = openChallenges
               /\ tasks' = Finish(t)
               /\ hist' = hist (+) SetToBag({InsufficientFunds(t.socket)})]_vars

\* A create was refused for insufficient funds.
C6_Witness == \E s \in Sockets : CopiesIn(InsufficientFunds(s), hist) >= 1

(***************************************************************************)
(* C7.  A join_challenge by the account that created the challenge ends    *)
(* with the self-join error: the challenge stays in the registry as it     *)
(* was, no room is stored, and no balance changes.                         *)
(***************************************************************************)
SelfJoin(rid, s) == Ev("error", rid, s, 0, "Huwezi kucheza dhidi yako!")

C7_SelfJoinRefused ==
    [][\A t \in Running :
          (/\ t.h = "join_challenge" /\ t.pc = "got" /\ Steps(t)
           /\ t.found /\ t.c.userId = userId(t.socket))
          => /\ users' = users
             /\ openChallenges' = openChallenges
             /\ activeRooms' = activeRooms
             /\ tasks' = Finish(t)
             /\ hist' = hist (+) SetToBag({SelfJoin(t.roomId, t.socket)})]_vars

\* A self-join was refused and the challenge is still in the registry, with no
\* room formed from it.
C7_Witness ==
    \E rid \in RoomIds, s \in Sockets :
        /\ CopiesIn(SelfJoin(rid, s), hist) >= 1
        /\ hExists(openChallenges, rid) /\ openChallenges[rid].hostId = s
        /\ Rooms(rid) = 0

(***************************************************************************)
(* C8.  When a session disconnects while a challenge it created is in the  *)
(* registry, then once every handler has finished the challenge is out of  *)
(* the registry and its stake was credited back exactly once, a cancel of  *)
(* the same session before or during the disconnect included.  Stated for  *)
(* a session with one challenge in the registry, the only one stored under *)
(* its roomId.                                                             *)
(***************************************************************************)
C8_DisconnectRefundsOnce ==
    \A rid \in RoomIds, s \in Sockets :
        (/\ LeftChallenges(s) = {rid}
         /\ Stored(rid) = 1
         /\ tasks = EmptyBag)
        => Credits(rid) = 1 /\ ~hExists(openChallenges, rid)

(***************************************************************************)
(* C9.  When a player of a room that is not yet processed disconnects,     *)
(* whatever the session did before, then once every handler has finished   *)
(* the room was settled exactly once, with reason abandon.                 *)
(***************************************************************************)
C9_DisconnectSettlesAsAbandon ==
    \A rid \in RoomIds, s \in Players :
        (CopiesIn(Ev("left", rid, s, 0, "room"), hist) >= 1 /\ tasks = EmptyBag)
        => Marked(rid) = 1 /\ Num("settled", rid, {"abandon"}) = 1

(***************************************************************************)
(* C10.  In every decisive settlement the amount credited to the winner    *)
(* plus the fee is twice the stake, where the fee is the integer part of   *)
(* a tenth of twice the stake; the fee the platform wallet receives is     *)
(* that fee.                                                               *)
(***************************************************************************)
C10_DecisiveSplit ==
    \A e \in BagToSet(hist), r \in BagToSet(hist) :
        (e[1] = "payout" /\ r[1] = "room" /\ r[2] = e[2])
        => \E fee \in 0..(2 * r[4]) :
              /\ 10 * fee <= 2 * r[4] /\ 2 * r[4] < 10 * fee + 10
              /\ e[4] + fee = 2 * r[4]
              /\ \A f \in BagToSet(hist) :
                    (f[1] = "fee" /\ f[2] = e[2] /\ f[5] # "draw") => f[4] = fee

\* A stake of 7 was settled: the winner was credited 13 and the platform 1.
C10_Witness ==
    \E e \in BagToSet(hist), f \in BagToSet(hist) :
        /\ e[1] = "payout" /\ e[4] = 13
        /\ f[1] = "fee" /\ f[2] = e[2] /\ f[4] = 1

(***************************************************************************)
(* C11.  In every draw settlement twice the refund credited to each player *)
(* plus the fee is twice the stake, where the fee is the integer part of a *)
(* tenth of twice the stake.                                               *)
(***************************************************************************)
C11_DrawSplit ==
    \A e \in BagToSet(hist), r \in BagToSet(hist) :
        (e[1] = "refund" /\ r[1] = "room" /\ r[2] = e[2])
        => \E fee \in 0..(2 * r[4]) :
              /\ 10 * fee <= 2 * r[4] /\ 2 * r[4] < 10 * fee + 10
              /\ 2 * e[4] + fee = 2 * r[4]

(***************************************************************************)
(* C12.  The platform wallet changes only when the settlement of a         *)
(* real-mode room credits its fee.  When a real-mode room of stake 100 is  *)
(* settled on game_over{winner: 'me'} of a player, the match_result names  *)
(* that player's account as winner with payout 180 and the wallet has      *)
(* gained 20.                                                              *)
(***************************************************************************)
C12_WalletOnlyFromRealRooms ==
    [][/\ admin_wallet' # admin_wallet
          => \E t \in Running : /\ t.h = "handleGameOver" /\ Steps(t)
                                /\ t.found /\ t.room.mode = "real"
       /\ \A t \in Running :
            (/\ t.h = "handleGameOver" /\ Steps(t) /\ tasks' = Finish(t)
             /\ t.found /\ ~(t.pc = "got")
             /\ t.reason = "regular" /\ t.winnerSocketId = t.socket
             /\ t.room.stake = 100 /\ t.room.mode = "real")
            => /\ CopiesIn(Ev("match_result", t.roomId, userId(t.socket), 180, "regular"),
                           hist') = 1
               /\ admin_wallet' = 20]_vars

\* The host sent game_over{winner: 'me'} in a real-mode room of stake 100 and the
\* settlement has finished: payout 180 to the host's account, the wallet holds 20.
C12_Witness ==
    /\ CopiesIn(Ev("marked", MatchRoomId, Host, 0, "regular"), hist) = 1
    /\ CopiesIn(Ev("match_result", MatchRoomId, userId(Host), 180, "regular"), hist) = 1
    /\ Num("room", MatchRoomId, {"real"}) = 1
    /\ admin_wallet = 20
    /\ tasks = EmptyBag

(***************************************************************************)
(* C13.  In every state a challenge is in the registry exactly when its    *)
(* creator's stake was debited and has neither been credited back nor      *)
(* gone into a room.  Stated for a roomId under which one challenge at     *)
(* most was stored.                                                        *)
(***************************************************************************)
Escrowed(rid) ==
    /\ Num("debit", rid, {"create"}) >= 1
    /\ Credits(rid) = 0
    /\ Rooms(rid) = 0

C13_ChallengeIffEscrowed ==
    \A rid \in RoomIds : Stored(rid) <= 1 => (hExists(openChallenges, rid) <=> Escrowed(rid))

(***************************************************************************)
(* C14.  In every state in which a room that is not processed is in the    *)
(* registry, what its two players were debited for it, less what was       *)
(* credited back for it, is twice its stake.  Stated for a roomId that     *)
(* one create_challenge generated.                                         *)
(***************************************************************************)
\* The sum of the amounts logged for this room, of this kind, for these accounts.
Amount(kind, rid, accounts) ==
    LET S == {e \in BagToSet(hist) : e[1] = kind /\ e[2] = rid /\ e[3] \in accounts}
        RECURSIVE Sum(_)
        Sum(T) == IF T = {} THEN 0
                  ELSE LET e == CHOOSE x \in T : TRUE
                       IN e[4] * CopiesIn(e, hist) + Sum(T \ {e})
    IN Sum(S)

EscrowOf(rid, room) ==
    LET players == {room.p1.userId, room.p2.userId}
    IN Amount("debit", rid, players) - Amount("credit", rid, players)

C14_OpenRoomHoldsBothStakes ==
    \A rid \in RoomIds :
        (/\ Num("debit", rid, {"create"}) = 1
         /\ hExists(activeRooms, rid) /\ ~activeRooms[rid].processed)
        => EscrowOf(rid, activeRooms[rid]) = 2 * activeRooms[rid].stake

(***************************************************************************)
(* C15.  A join_challenge looks its roomId up in the registry when it      *)
(* arrives, and one that finds no challenge there ends with the not-found  *)
(* error: no balance changes and no room is stored.                        *)
(***************************************************************************)
NotFound(rid, s) == Ev("error", rid, s, 0, "Mechi haipatikani.")

C15_UnknownJoinRefused ==
    [][/\ \A u \in BagToSet(tasks') :
            (u.h = "join_challenge" /\ Starts(u) /\ u.pc = "got")
            => (u.found <=> hExists(openChallenges, u.roomId))
       /\ \A t \in Running :
            (t.h = "join_challenge" /\ t.pc = "got" /\ ~t.found /\ Steps(t))
            => /\ users' = users
               /\ activeRooms' = activeRooms
               /\ openChallenges' = openChallenges
               /\ tasks' = Finish(t)
               /\ hist' = hist (+) SetToBag({NotFound(t.roomId, t.socket)})]_vars

\* A join of a challenge that another session had already joined was refused as
\* not found.
C15_Witness ==
    \E rid \in RoomIds, s \in Sockets :
        /\ CopiesIn(NotFound(rid, s), hist) >= 1
        /\ Rooms(rid) = 1
        /\ s \notin JoinersStarted(rid)

(***************************************************************************)
(* C16.  A join_challenge compares the challenge's stake with the balance  *)
(* the joiner has in the challenge's mode, and a joiner whose balance is   *)
(* less ends with the insufficient-funds error: no balance changes, no     *)
(* room is stored, and the challenge stays in the registry as it was.      *)
(***************************************************************************)
JoinShort(rid, s) == Ev("error", rid, s, 0, "Salio Halitoshi!")

C16_ShortJoinRefused ==
    [][/\ \A t \in Running, u \in BagToSet(tasks') :
            (/\ t.h = "join_challenge" /\ t.pc = "got" /\ Steps(t)
             /\ Starts(u) /\ u.pc = "selected")
            => u.bal = users[userId(t.socket)][balCol(t.c.mode)]
       /\ \A t \in Running :
            (/\ t.h = "join_challenge" /\ t.pc = "selected" /\ Steps(t)
             /\ t.bal < t.c.stake)
            => /\ users' = users
               /\ activeRooms' = activeRooms
               /\ openChallenges' = openChallenges
               /\ tasks' = Finish(t)
               /\ hist' = hist (+) SetToBag({JoinShort(t.roomId, t.socket)})]_vars

\* A joiner was refused for insufficient funds and the challenge is still in the
\* registry, with no room formed from it.
C16_Witness ==
    \E rid \in RoomIds, s \in Sockets :
        /\ CopiesIn(JoinShort(rid, s), hist) >= 1
        /\ hExists(openChallenges, rid)
        /\ openChallenges[rid].stake > users[userId(s)][balCol(openChallenges[rid].mode)]
        /\ Rooms(rid) = 0

(***************************************************************************)
(* C17.  A create_challenge with a stake of zero or less is rejected: no   *)
(* account is debited such a stake and no challenge with such a stake is   *)
(* stored in the registry.                                                 *)
(***************************************************************************)
C17_NonPositiveStakeRejected ==
    /\ \A rid \in DOMAIN openChallenges : openChallenges[rid].stake > 0
    /\ \A e \in BagToSet(hist) : (e[1] = "debit" /\ e[5] = "create") => e[4] > 0

(***************************************************************************)
(* C18.  Once a ledger statement of a room's settlement has failed, the    *)
(* room is never again in the registry as not processed, every call of     *)
(* handleGameOver made for it from then on finds it absent or processed,   *)
(* and when every handler has finished the room is out of the registry.    *)
(***************************************************************************)
Failed(rid) == Num("failed", rid, Reasons)

C19_NothingDebitedWhenUnstored ==
    \A e \in BagToSet(hist) :
        e[1] = "unstored" => Amount("debit", e[2], {e[3]}) = 0

(***************************************************************************)
(* C20.  A decisive match between two players both rated 1200 leaves the   *)
(* winner rated 1216 and the loser rated 1184, whoever wins and for        *)
(* whatever reason: every settlement of such a match writes the same pair. *)
(***************************************************************************)
C20_EvenMatchRatings ==
    \A e \in BagToSet(hist) :
        /\ e[1] = "payout" => users[e[3]].elo = 1216
        /\ e[1] = "rated" => e[4] = 1184 /\ users[e[3]].elo = 1184

C20_Witness ==
    /\ Payouts(MatchRoomId) = 1
    /\ Ratings(MatchRoomId) = 1
    /\ \E a, b \in Users : a # b /\ users[a].elo = 1216 /\ users[b].elo = 1184
(***************************************************************************)
(* C21.  Once every handler has finished, a challenge that a join removed  *)
(* from the registry has a room: no challenge is gone, with its creator's  *)
(* stake debited and never credited back, while no room was created.       *)
(***************************************************************************)
Consumed(rid) ==
    /\ Stored(rid) >= 1
    /\ ~hExists(openChallenges, rid)
    /\ Credits(rid) = 0

C21_RemovedChallengeHasRoom ==
    \A rid \in RoomIds : (tasks = EmptyBag /\ Consumed(rid)) => Rooms(rid) >= 1
(***************************************************************************)
(* C22.  Storing a challenge under a public room identifier never          *)
(* overwrites a challenge that the registry already holds under it.        *)
(***************************************************************************)
C22_StoreNeverOverwrites ==
    [][\A rid \in PubIds :
          Stored(rid)' > Stored(rid) => ~hExists(openChallenges, rid)]_vars
(***************************************************************************)
(* C23.  A game_over sent by a participant of the room pays the sender     *)
(* when it says winner = me, and pays the other participant when it says   *)
(* winner = opponent.                                                      *)
(***************************************************************************)
Claimed(t) ==
    IF t.winnerSocketId = t.socket THEN userId(t.socket)
    ELSE userId(opponentId(t.room, t.socket))

C23_GameOverPaysNamedWinner ==
    [][\A t \in Running :
          (/\ Steps(t) /\ t.h = "handleGameOver" /\ t.pc = "marked"
           /\ t.reason = "regular" /\ t.socket \in {t.room.p1.id, t.room.p2.id})
          => LET paid == Ev("payout", t.roomId, Claimed(t), winnerTake(t.room), "regular")
             IN CopiesIn(paid, hist') = CopiesIn(paid, hist) + 1]_vars
(***************************************************************************)
(* C24.  A completion signal from a participant whose room has already     *)
(* been settled and removed raises no exception in its handler.            *)
(***************************************************************************)
Thrown(rid) == Num("TypeError", rid, Reasons)

C24_LateSignalRaisesNothing ==
    \A rid \in RoomIds : Settled(rid) >= 1 => Thrown(rid) = 0
(***************************************************************************)
(* C25.  Once no settlement of a room is in flight, the room channel has   *)
(* received one match_result for every settlement that marked the room     *)
(* processed.                                                              *)
(***************************************************************************)
MatchResults(rid) == Num("match_result", rid, Reasons)

C25_OneResultPerSettlement ==
    \A rid \in RoomIds : Settling(rid) = {} => MatchResults(rid) = Marked(rid)
(***************************************************************************)
(* C26.  A room that is in the registry with processed = true is           *)
(* eventually removed from the registry, as long as handlers that wait for *)
(* a reply are resumed.                                                    *)
(***************************************************************************)
ProcessedRoom(rid) == hExists(activeRooms, rid) /\ activeRooms[rid].processed

C26_SettledRoomRemoved ==
    \A rid \in RoomIds : ProcessedRoom(rid) ~> ~hExists(activeRooms, rid)

C26_Witness ==
    /\ Marked(MatchRoomId) >= 1
    /\ ~hExists(activeRooms, MatchRoomId)
    /\ tasks = EmptyBag
(***************************************************************************)
(* C27.  A live connection is the creator of open challenges and a player  *)
(* of open rooms at most once in all: one challenge, or one room, never    *)
(* two of either and never one of each.                                    *)
(***************************************************************************)
Associations(s) ==
    Cardinality(Hosted(openChallenges, s)) + Cardinality(OpenRoomsOf(s))

C27_OneAssociation ==
    \A s \in Sockets : sockets[s].connected => Associations(s) <= 1
(***************************************************************************)
(* C28.  Whatever the interleaving of the handlers, the two balances of an *)
(* account add up to what they were at the start, plus every credit        *)
(* applied to the account, minus every debit applied to it.                *)
(***************************************************************************)
Delta(e) ==
    CASE e[1] = "debit" -> 0 - e[4]
      [] e[1] \in {"credit", "payout", "refunded"} -> e[4]
      [] OTHER -> 0

Applied(uid) ==
    LET S == {e \in BagToSet(hist) : e[3] = uid}
        RECURSIVE Sum(_)
        Sum(T) == IF T = {} THEN 0
                  ELSE LET e == CHOOSE x \in T : TRUE
                       IN Delta(e) * CopiesIn(e, hist) + Sum(T \ {e})
    IN Sum(S)

C28_NoLostUpdate ==
    \A uid \in Users :
        users[uid].real_balance + users[uid].demo_balance = 2 * InitBalance + Applied(uid)

C28_Witness ==
    /\ Cardinality({rid \in RoomIds : Num("debit", rid, {"create"}) >= 1}) >= 2
    /\ \E rid \in RoomIds : Credits(rid) >= 1
    /\ \E t, u \in Running : t # u /\ t.h = "create_challenge" /\ u.h # "create_challenge"
(***************************************************************************)
(* C29.  Every step of a draw settlement leaves all ratings and all        *)
(* balances of the other mode as they were; its refund step adds the same  *)
(* amount, half of the pot less the fee, to the balance of both players in *)
(* the mode of the room, and its other steps change no balance.            *)
(***************************************************************************)
otherCol(mode) == IF mode = "real" THEN "demo_balance" ELSE "real_balance"

C29_DrawRefundsBothAlike ==
    [][\A t \in Running :
          (Steps(t) /\ t.h = "handleGameOver" /\ t.reason = "draw" /\ t.found)
          => LET pot == 2 * t.room.stake
                 amount == IF t.pc = "marked" THEN (pot - pot \div 10) \div 2 ELSE 0
                 players == {t.room.p1.userId, t.room.p2.userId}
             IN \A uid \in Users :
                   /\ users'[uid].elo = users[uid].elo
                   /\ users'[uid][otherCol(t.room.mode)] = users[uid][otherCol(t.room.mode)]
                   /\ users'[uid][balCol(t.room.mode)] =
                         users[uid][balCol(t.room.mode)]
                            + (IF uid \in players THEN amount ELSE 0)]_vars

C29_Witness ==
    /\ Num("refund", MatchRoomId, {"draw"}) = 1
    /\ Settled(MatchRoomId) = 1
(***************************************************************************)
(* C30.  A rating changes only in a step of a decisive settlement, and     *)
(* only for a player of its room.  In either mode that settlement writes   *)
(* the winner's new rating when it pays the winner and the loser's new     *)
(* rating in its next step, and no step of it changes a balance of the     *)
(* loser.                                                                  *)
(***************************************************************************)
Decisive(t) == t.h = "handleGameOver" /\ t.reason # "draw" /\ t.found

C30_RatingsOnlyByDecisiveSettlement ==
    [][/\ \A uid \in Users :
             users'[uid].elo # users[uid].elo
             => \E t \in Running :
                   /\ Steps(t) /\ Decisive(t)
                   /\ uid \in {t.room.p1.userId, t.room.p2.userId}
       /\ \A t \in Running :
             (Steps(t) /\ Decisive(t))
             => LET w == winner(t)
                    l == loser(t)
                    newElos == updateElo(w.elo, l.elo)
                IN /\ t.pc = "marked" => users'[w.userId].elo = newElos.newWinnerElo
                   /\ t.pc = "winnerPaid" => users'[l.userId].elo = newElos.newLoserElo
                   /\ users'[l.userId].real_balance = users[l.userId].real_balance
                   /\ users'[l.userId].demo_balance = users[l.userId].demo_balance]_vars

C30_Witness ==
    /\ Settled(MatchRoomId) = 1
    /\ Ratings(MatchRoomId) = 1
    /\ transactions = EmptyBag
    /\ \E a, b \in Users : a # b /\ users[a].elo > 1200 /\ users[b].elo < 1200
(***************************************************************************)
(* C31.  The lobby_update last emitted holds public challenges only; as    *)
(* this is so in every state, no lobby_update ever carries a private       *)
(* challenge.                                                              *)
(***************************************************************************)
C31_LobbyIsPublic == \A c \in lobby : ~c.isPrivate

C31_Witness ==
    \E t \in Running :
        /\ \E r \in DOMAIN t.rawChallenges : t.rawChallenges[r].isPrivate
        /\ lobby = PublicOf(t.rawChallenges)
        /\ lobby # {}
(***************************************************************************)
(* C32.  Once every handler has finished, the lobby_update last emitted is *)
(* the set of public challenges that the registry holds.  The case checked *)
(* is one challenge created by one session, and other sessions joining it. *)
(***************************************************************************)
OneCreateAndJoins ==
    /\ events["create"] <= 1
    /\ events["cancel"] = 0
    /\ events["disconnect"] = 0

C32_LobbyConverges ==
    (tasks = EmptyBag /\ OneCreateAndJoins) => lobby = PublicOf(openChallenges)
(***************************************************************************)
(* C33.  A step that relays a move or a draw offer changes no challenge,   *)
(* no room and no settlement status, no balance, no rating, no platform    *)
(* wallet and no transaction, and starts no handler.                       *)
(***************************************************************************)
Relayed(rid) == Num("opponent_move", rid, {""}) + Num("draw_offered", rid, {""})

C33_RelaysChangeNothing ==
    [][(\E rid \in RoomIds : Relayed(rid)' > Relayed(rid))
          => /\ users' = users /\ admin_wallet' = admin_wallet
             /\ transactions' = transactions
             /\ openChallenges' = openChallenges /\ activeRooms' = activeRooms
             /\ tasks' = tasks]_vars

C33_Witness ==
    /\ Num("opponent_move", MatchRoomId, {""}) >= 1
    /\ Num("draw_offered", MatchRoomId, {""}) >= 1
    /\ hExists(activeRooms, MatchRoomId)
    /\ ~activeRooms[MatchRoomId].processed
(***************************************************************************)
(* C34.  Between requests that are handled one after the other, the real   *)
(* balances of all accounts, the platform wallet and the real-mode stakes  *)
(* held by open challenges and by open rooms add up to what they were at   *)
(* the start.                                                              *)
(***************************************************************************)
RECURSIVE SumOver(_, _)
SumOver(S, f) ==
    IF S = {} THEN 0
    ELSE LET x == CHOOSE y \in S : TRUE
         IN f[x] + SumOver(S \ {x}, f)

HeldInChallenges ==
    SumOver(DOMAIN openChallenges,
            [r \in DOMAIN openChallenges |->
                IF openChallenges[r].mode = "real" THEN openChallenges[r].stake ELSE 0])

HeldInRooms ==
    SumOver(DOMAIN activeRooms,
            [r \in DOMAIN activeRooms |->
                IF activeRooms[r].mode = "real" /\ ~activeRooms[r].processed
                THEN 2 * activeRooms[r].stake ELSE 0])

RealFunds ==
    SumOver(Users, [uid \in Users |-> users[uid].real_balance])
        + admin_wallet + HeldInChallenges + HeldInRooms

C34_RealFundsConserved ==
    tasks = EmptyBag => RealFunds = Cardinality(Users) * InitBalance
(***************************************************************************)
(* C35.  In the single-process revision the step of a join that removes    *)
(* the challenge leaves in openChallenges every challenge that has another *)
(* roomId than the one requested, and leaves none that has the one         *)
(* requested.                                                              *)
(***************************************************************************)
Listed(list) == {list[i] : i \in DOMAIN list}

C35_JoinRemovesOnlyRequested ==
    [][\A t \in Running :
          (/\ Steps(t) /\ t.h = "join_challenge" /\ t.pc = "selected"
           /\ ~(t.bal < t.c.stake))
          => /\ \A c \in Listed(openChallenges) :
                   c.roomId # t.roomId => c \in Listed(openChallenges')
             /\ \A c \in Listed(openChallenges') : c.roomId # t.roomId]_vars
====
